---- MODULE Spec2Model ----
(***************************************************************************)
(* A model of permspace: PermutationSpace (src/permspace/permspace.py),    *)
(* the enumeration of the cross-product of independent parameters with     *)
(* dependent parameters, constants, filters with jumps, start/end bounds   *)
(* and skip.                                                               *)
(* Namespace and MixedRadix of src/permspace.py are modelled further down. *)
(*                                                                         *)
(* Python values are records tagged by "kind": an int, an iterable (its    *)
(* items), a callable (the names of its signature and what it computes).   *)
(* A dict is a function from names to values; a list is a sequence,        *)
(* 1-based here and 0-based in the source: place p of the source is        *)
(* position p + 1 of a sequence.                                           *)
(***************************************************************************)
EXTENDS Integers, Sequences, FiniteSets, TLC

(***************************************************************************)
(* Bounds of the model.                                                    *)
(***************************************************************************)
MaxDomain == 2
MaxFilters == 2
MaxSkip == 1
MaxIterators == 2

(***************************************************************************)
(* Python values.                                                          *)
(***************************************************************************)
IntVal(n) == [kind |-> "int", v |-> n]

Iterable(n) == [kind |-> "iterable", items |-> [i \in 1..n |-> IntVal(i)]]

\* A callable with the signature `args`; called, it returns bias + the sum
\* of its arguments.
Callable(args, bias) == [kind |-> "callable", args |-> args, bias |-> bias]

\* A str: an iterable of its characters, each a str of length one.
Str(chars) == [kind |-> "str", items |-> [i \in 1..Len(chars) |->
                                             [kind |-> "str", items |-> <<chars[i]>>]]]

\* hasattr(value, '__iter__')
HasIter(value) == value.kind \in {"iterable", "str"}

\* hasattr(value, '__call__')
HasCall(value) == value.kind = "callable"

\* set(signature(value).parameters)
Signature(value) == value.args

None == [kind |-> "None"]

\* float('inf'), above every digit of the model.
inf == 1000000

RECURSIVE SumOver(_, _)
SumOver(names, kw) ==
    IF names = {} THEN 0
    ELSE LET n == CHOOSE x \in names : TRUE
         IN kw[n].v + SumOver(names \ {n}, kw)

\* value(**kw) for a callable value: TypeError unless every argument is an int.
Call(value, kw) ==
    IF \A n \in DOMAIN kw : kw[n].kind = "int"
    THEN [raised |-> "", result |-> IntVal(value.bias + SumOver(DOMAIN kw, kw))]
    ELSE [raised |-> "TypeError", result |-> None]

\* The dict with the entries of d and d[k] = v.
DictSet(d, k, v) == [x \in DOMAIN d \cup {k} |-> IF x = k THEN v ELSE d[x]]

EmptyDict == [x \in {} |-> None]

\* list.index(x): the first position of x, 0-based; x is in the list.
ListIndex(list, x) == (CHOOSE i \in 1..Len(list) :
                          list[i] = x /\ \A j \in 1..(i - 1) : list[j] # x) - 1

InList(list, x) == \E i \in 1..Len(list) : list[i] = x

\* Python's list < list: the first differing element decides, and a proper
\* prefix is less.
RECURSIVE ListLess(_, _)
ListLess(x, y) ==
    IF y = <<>> THEN FALSE
    ELSE IF x = <<>> THEN TRUE
    ELSE IF Head(x) # Head(y) THEN Head(x) < Head(y)
    ELSE ListLess(Tail(x), Tail(y))

\* sorted(names) for the names of the model.
NameRank(n) == CASE n = "a" -> 1 [] n = "b" -> 2 [] n = "c" -> 3 [] n = "d" -> 4
                 [] n = "e" -> 5 [] n = "k" -> 6 [] n = "u" -> 7 [] n = "z" -> 8
                 [] OTHER -> 9

RECURSIVE Sorted(_)
Sorted(names) ==
    IF names = {} THEN <<>>
    ELSE LET n == CHOOSE x \in names : \A y \in names : NameRank(x) <= NameRank(y)
         IN <<n>> \o Sorted(names \ {n})

(***************************************************************************)
(* The arguments of the constructor: `order`, and kwargs as the sequence   *)
(* of its (name, value) pairs in the order they were passed.               *)
(***************************************************************************)
Kw(name, value) == [name |-> name, value |-> value]

\* kwargs[name]; the name is one of kwargs.
KwValue(kw, name) == (CHOOSE i \in 1..Len(kw) : kw[i].name = name) 

KwNames(kw) == {kw[i].name : i \in 1..Len(kw)}

KwGet(kw, name) == kw[KwValue(kw, name)].value

\* The orders of the model: no parameter, one, two (in both orders), three;
\* a name listed twice and a name that is not a parameter.
Orders == {<<>>, <<"a">>, <<"a", "b">>, <<"b", "a">>, <<"a", "b", "c">>,
           <<"a", "a">>, <<"a", "u">>}

\* The parameters other than the iterables, for an order: a constant k, a
\* dependent z that takes no argument, and dependents of the parameters of
\* the order, d of a and e of d and b (a chain declared in reverse, as
\* tests.py declares question_name, part_name, subpart_name).
Extras(ord) ==
    IF ord = <<>>
    THEN {<<Kw("k", IntVal(7)), Kw("z", Callable({}, 5))>>}
    ELSE IF ~InList(ord, "b")
    THEN {<<Kw("k", IntVal(7)), Kw("z", Callable({}, 5)), Kw("d", Callable({"a"}, 10))>>}
    ELSE {<<Kw("e", Callable({"d", "b"}, 100)), Kw("k", IntVal(7)),
            Kw("z", Callable({}, 5)), Kw("d", Callable({"a"}, 10))>>}

IterableNames == {"a", "b", "c"}

\* The iterables of a constructor call: each of `names` with 1..MaxDomain values.
RECURSIVE IterableKwargs(_)
IterableKwargs(names) ==
    IF names = <<>> THEN {<<>>}
    ELSE {<<Kw(Head(names), Iterable(n))>> \o rest :
             n \in 1..MaxDomain, rest \in IterableKwargs(Tail(names))}

\* The names of `seq` in IterableNames, each once, in the order of `seq`.
RECURSIVE Declared(_, _)
Declared(seq, seen) ==
    IF seq = <<>> THEN <<>>
    ELSE IF Head(seq) \in seen \/ Head(seq) \notin IterableNames
         THEN Declared(Tail(seq), seen)
         ELSE <<Head(seq)>> \o Declared(Tail(seq), seen \cup {Head(seq)})

(***************************************************************************)
(* PermutationSpace.__init__                                               *)
(***************************************************************************)
Parameter(name, value, independencies, parameters) ==
    [name |-> name, value |-> value, independencies |-> independencies,
     parameters |-> parameters]

\* tuple(value) of an iterable
Tuple(value) == [kind |-> "tuple", items |-> value.items]

_get_dependencies(params, parameters) ==
    UNION {params[p].independencies : p \in parameters}

\* The first loop of _process_parameters, from item i of kwargs on:
\* independent parameters, the signatures of the dependents, constants.
RECURSIVE Classify(_, _, _, _, _, _)
Classify(ord, kw, i, params, dependencies, constants) ==
    IF i > Len(kw)
    THEN [raised |-> "", params |-> params, dependencies |-> dependencies,
          constants |-> constants]
    ELSE LET parameter == kw[i].name
             value == kw[i].value
         IN IF InList(ord, parameter)
            THEN IF ~HasIter(value)
                 THEN [raised |-> "ValueError", params |-> params,
                       dependencies |-> dependencies, constants |-> constants]
                 ELSE Classify(ord, kw, i + 1,
                               DictSet(params, parameter,
                                       Parameter(parameter, Tuple(value), {parameter}, {})),
                               dependencies, constants)
            ELSE IF HasCall(value)
            THEN Classify(ord, kw, i + 1, params, Append(dependencies, parameter), constants)
            ELSE Classify(ord, kw, i + 1,
                          DictSet(params, parameter,
                                  Parameter(parameter, value, {parameter}, {})),
                          dependencies, constants \cup {parameter})

\* One pass of the for loop over the dependents not yet placed, from i on.
RECURSIVE Scan(_, _, _, _, _, _)
Scan(kw, dependencies, i, params, dependents, to_delete) ==
    IF i > Len(dependencies)
    THEN [params |-> params, dependents |-> dependents, to_delete |-> to_delete]
    ELSE LET parameter == dependencies[i]
             parents == Signature(KwGet(kw, parameter))
         IN IF parents \subseteq DOMAIN params
            THEN Scan(kw, dependencies, i + 1,
                      DictSet(params, parameter,
                              Parameter(parameter, KwGet(kw, parameter),
                                        _get_dependencies(params, parents), parents)),
                      Append(dependents, parameter), to_delete \cup {parameter})
            ELSE Scan(kw, dependencies, i + 1, params, dependents, to_delete)

\* The while loop of _process_parameters if it made one pass and raised
\* nothing.
PlaceInOnePass(kw, dependencies, params, dependents) ==
    [raised |-> "",
     params |-> Scan(kw, dependencies, 1, params, dependents, {}).params,
     dependents |-> Scan(kw, dependencies, 1, params, dependents, {}).dependents]

\* The while loop of _process_parameters: passes until every dependent is
\* placed, ValueError when a pass places none.
RECURSIVE Place(_, _, _, _)
Place(kw, dependencies, params, dependents) ==
    IF dependencies = <<>>
    THEN [raised |-> "", params |-> params, dependents |-> dependents]
    ELSE LET pass == Scan(kw, dependencies, 1, params, dependents, {})
             NotPlaced(p) == p \notin pass.to_delete
         IN IF pass.to_delete = {}
            THEN [raised |-> "ValueError", params |-> pass.params,
                  dependents |-> pass.dependents]
            ELSE Place(kw, SelectSeq(dependencies, NotPlaced), pass.params,
                       pass.dependents)

_process_parameters(ord, kw) ==
    LET c == Classify(ord, kw, 1, EmptyDict, <<>>, {})
        p == Place(kw, c.dependencies, c.params, <<>>)
    IN IF c.raised # ""
       THEN [raised |-> c.raised, params |-> c.params, topological_order |-> <<>>]
       ELSE IF p.raised # ""
       THEN [raised |-> p.raised, params |-> p.params, topological_order |-> ord]
       ELSE [raised |-> "", params |-> p.params,
             topological_order |-> ord \o Sorted(c.constants) \o p.dependents]

\* _check_order without the set `seen`: a name listed twice passes.
RECURSIVE CheckOrderWithoutSeen(_, _, _, _)
CheckOrderWithoutSeen(ord, params, i, seen) ==
    IF i > Len(ord) THEN ""
    ELSE IF ord[i] \notin DOMAIN params THEN "ValueError"
    ELSE IF params[ord[i]].value.kind \notin {"tuple", "iterable", "str"}
    THEN "ValueError"
    ELSE CheckOrderWithoutSeen(ord, params, i + 1, seen)

\* _check_order from place i on: every name of the order is a parameter, is
\* listed once and is an iterable that is no string.
RECURSIVE _check_order(_, _, _, _)
_check_order(ord, params, i, seen) ==
    IF i > Len(ord) THEN ""
    ELSE LET parameter == ord[i]
         IN IF parameter \notin DOMAIN params THEN "ValueError"
            ELSE IF parameter \in seen THEN "ValueError"
            ELSE IF params[parameter].value.kind \notin {"tuple", "iterable", "str"}
                 THEN "ValueError"
            ELSE IF params[parameter].value.kind = "str" THEN "ValueError"
            ELSE _check_order(ord, params, i + 1, seen \cup {parameter})

(***************************************************************************)
(* Filters: a predicate is a callable that compares the sum of its         *)
(* arguments with k ("lt": sum < k, "ne": sum != k).                       *)
(***************************************************************************)
Pred(args, op, k) == [kind |-> "callable", args |-> args, op |-> op, k |-> k]

\* function(**kw) for a predicate: TypeError unless every argument is an int.
TestPredicate(function, kw) ==
    IF \A n \in DOMAIN kw : kw[n].kind = "int"
    THEN [raised |-> "",
          result |-> IF function.op = "lt" THEN SumOver(DOMAIN kw, kw) < function.k
                     ELSE SumOver(DOMAIN kw, kw) # function.k]
    ELSE [raised |-> "TypeError", result |-> FALSE]

\* _create_filter_if_func(antecedent_func, consequent_func): if_func
IfFunc(antecedent_func, consequent_func) ==
    [kind |-> "if_func", antecedent |-> antecedent_func,
     consequent |-> consequent_func]

\* {k: v for k, v in kwargs.items() if k in params}
Restricted(kw, params) == [k \in DOMAIN kw \cap params |-> kw[k]]

\* if_func(**kw): not antecedent_func(...) or consequent_func(...); the
\* consequent is not called when the antecedent is falsy.
if_func(function, kw) ==
    LET antecedent == TestPredicate(function.antecedent,
                                    Restricted(kw, Signature(function.antecedent)))
    IN IF antecedent.raised # "" THEN antecedent
       ELSE IF ~antecedent.result THEN [raised |-> "", result |-> TRUE]
       ELSE TestPredicate(function.consequent,
                          Restricted(kw, Signature(function.consequent)))

\* function(**kw) for the function of a filter.
Test(function, kw) ==
    IF function.kind = "if_func" THEN if_func(function, kw)
    ELSE TestPredicate(function, kw)

\* The predicates of the model: on one independent parameter each, on a
\* dependent of two (e = 110 + a + b), on a name that is not a parameter, on
\* a constant.
Predicates == {Pred({"a"}, "lt", 2), Pred({"b"}, "ne", 1), Pred({"c"}, "lt", 2),
               Pred({"e"}, "ne", 113), Pred({"u"}, "lt", 2), Pred({"k"}, "lt", 8)}

FilterFunction(function, parameters, min_place) ==
    [function |-> function, parameters |-> parameters, min_place |-> min_place]

\* change_place = None
NoPlace == -1

\* min for max: the name of `names` earliest in the order.
MinByIndex(ord, names) ==
    CHOOSE n \in names : \A m \in names : ListIndex(ord, n) <= ListIndex(ord, m)

\* max(names, key=order.index): the name of `names` latest in the order.
MaxByIndex(ord, names) ==
    CHOOSE n \in names : \A m \in names : ListIndex(ord, m) <= ListIndex(ord, n)

\* PermutationSpace.filter if it appended the filter before it checked the
\* arguments.
filterThenCheck(ord, params, filter_func) ==
    LET parameters == Signature(filter_func)
        dependencies == _get_dependencies(params, parameters \cap DOMAIN params)
    IN IF ~(parameters \subseteq DOMAIN params)
       THEN [raised |-> "ValueError",
             appended |-> <<FilterFunction(filter_func, parameters, 0)>>]
       ELSE IF dependencies = {} \/ \E n \in dependencies : ~InList(ord, n)
       THEN [raised |-> "ValueError", appended |-> <<>>]
       ELSE [raised |-> "",
             appended |-> <<FilterFunction(filter_func, parameters,
                                ListIndex(ord, MaxByIndex(ord, dependencies)))>>]

\* PermutationSpace.filter: the filter to append, or what it raises.
filter(ord, params, filter_func) ==
    LET parameters == Signature(filter_func)
        dependencies == _get_dependencies(params, parameters)
    IN IF ~(parameters \subseteq DOMAIN params)
       THEN [raised |-> "ValueError", appended |-> <<>>]
       ELSE IF dependencies = {} \/ \E n \in dependencies : ~InList(ord, n)
       THEN [raised |-> "ValueError", appended |-> <<>>]
       ELSE [raised |-> "",
             appended |-> <<FilterFunction(filter_func, parameters,
                                ListIndex(ord, MaxByIndex(ord, dependencies)))>>]

\* PermutationSpace.filter_if: the filter to append, or what it raises.
\* There is no test of the arguments: _get_dependencies raises KeyError on
\* a name that is not a parameter.
filter_if(ord, params, antecedent_func, consequent_func) ==
    LET parameters == Signature(antecedent_func) \cup Signature(consequent_func)
        dependencies == _get_dependencies(params, parameters \cap DOMAIN params)
    IN IF ~(parameters \subseteq DOMAIN params)
       THEN [raised |-> "KeyError", appended |-> <<>>]
       ELSE IF dependencies = {} \/ \E n \in dependencies : ~InList(ord, n)
       THEN [raised |-> "ValueError", appended |-> <<>>]
       ELSE [raised |-> "",
             appended |-> <<FilterFunction(IfFunc(antecedent_func, consequent_func),
                                parameters,
                                ListIndex(ord, MaxByIndex(ord, dependencies)))>>]

(***************************************************************************)
(* The steps of an enumeration.                                            *)
(***************************************************************************)
\* The keys of a dict of the model, in the order they were inserted.
Keys(d) == Sorted(DOMAIN d)

\* `x in value`: TypeError when value is not a container.
Contains(value, x) ==
    IF value.kind \in {"tuple", "iterable"}
    THEN [raised |-> "", result |-> InList(value.items, x)]
    ELSE [raised |-> "TypeError", result |-> FALSE]

\* The first loop of _dict_to_index, from key i on: what it raises.
RECURSIVE CheckValues(_, _, _, _)
CheckValues(params, values, keys, i) ==
    IF i > Len(keys) THEN ""
    ELSE LET parameter == keys[i]
         IN IF parameter \notin DOMAIN params THEN "ValueError"
            ELSE LET c == Contains(params[parameter].value, values[parameter])
                 IN IF c.raised # "" THEN c.raised
                    ELSE IF ~c.result THEN "ValueError"
                    ELSE CheckValues(params, values, keys, i + 1)

_dict_to_index(ord, params, values) ==
    LET raised == CheckValues(params, values, Keys(values), 1)
    IN IF raised # "" THEN [raised |-> raised, index |-> <<>>]
       ELSE [raised |-> "",
             index |-> [i \in 1..Len(ord) |->
                          IF ord[i] \in DOMAIN values
                          THEN ListIndex(params[ord[i]].value.items, values[ord[i]])
                          ELSE 0]]

\* _increment_index from `place` (0-based) down to place 0: the digit at
\* place is incremented and the digits after it are zeroed; a digit that
\* reaches its radix is zeroed and the place before it is incremented.
\* overflow: the function returns None.
RECURSIVE _increment_index(_, _, _, _)
_increment_index(ord, params, index, place) ==
    IF place < 0 THEN [overflow |-> TRUE, index |-> index]
    ELSE LET bumped == [i \in 1..Len(index) |->
                           IF i = place + 1 THEN index[i] + 1
                           ELSE IF i > place + 1 THEN 0 ELSE index[i]]
         IN IF bumped[place + 1] >= Len(params[ord[place + 1]].value.items)
            THEN _increment_index(ord, params, [bumped EXCEPT ![place + 1] = 0],
                                  place - 1)
            ELSE [overflow |-> FALSE, index |-> bumped]

\* The independent parameters of a namespace: result[parameter] = value[i].
Independents(ord, params, index) ==
    [p \in {ord[i] : i \in 1..Len(ord)} |->
        params[p].value.items[index[ListIndex(ord, p) + 1] + 1]]

\* The key of the cache for a dependent: the values of its arguments, the
\* arguments sorted by name.
CacheKey(name, parents, result) ==
    <<name, [i \in 1..Cardinality(parents) |-> result[Sorted(parents)[i]]]>>

\* A cache that answers with the value stored for other arguments of the
\* same parameter, when it holds one.
CachedForOtherArguments(cch, key) ==
    IF \E k \in DOMAIN cch : k[1] = key[1] /\ k # key
    THEN cch[CHOOSE k \in DOMAIN cch : k[1] = key[1] /\ k # key]
    ELSE cch[key]

\* self.cache[parameter.name][key]
Cached(cch, key) == cch[key]

\* The second loop of _index_to_namespace, from entry i of the topological
\* order on: constants, and dependents through the cache.
RECURSIVE Dependents(_, _, _, _, _)
Dependents(params, topo, i, result, cch) ==
    IF i > Len(topo) THEN [raised |-> "", result |-> result, cache |-> cch]
    ELSE LET parameter == params[topo[i]]
         IN IF parameter.parameters # {}
            THEN LET key == CacheKey(parameter.name, parameter.parameters, result)
                     called == Call(parameter.value,
                                    [k \in parameter.parameters |-> result[k]])
                 IN IF key \in DOMAIN cch
                    THEN Dependents(params, topo, i + 1,
                                    DictSet(result, parameter.name, Cached(cch, key)), cch)
                    ELSE IF called.raised # ""
                    THEN [raised |-> called.raised, result |-> result, cache |-> cch]
                    ELSE Dependents(params, topo, i + 1,
                                    DictSet(result, parameter.name, called.result),
                                    DictSet(cch, key, called.result))
            ELSE Dependents(params, topo, i + 1,
                            DictSet(result, parameter.name, parameter.value), cch)

\* namespace_class(self, count, **result)
Namespace(count, result) == [index_ |-> count, values |-> result]

_index_to_namespace(ord, params, topo, cch, count, index) ==
    LET d == Dependents(params, topo, Len(ord) + 1,
                        Independents(ord, params, index), cch)
    IN [raised |-> d.raised, values |-> Namespace(count, d.result), cache |-> d.cache]

\* The for loop over the filters if it stopped after the first filter.
CheckFirstFilter(fs, i, values, change_place) ==
    IF i > Len(fs) THEN [raised |-> "", change_place |-> change_place]
    ELSE LET filter_result ==
                 Test(fs[i].function, [p \in fs[i].parameters |-> values.values[p]])
         IN IF filter_result.raised # ""
            THEN [raised |-> filter_result.raised, change_place |-> change_place]
            ELSE IF ~filter_result.result
            THEN [raised |-> "", change_place |-> fs[i].min_place]
            ELSE [raised |-> "", change_place |-> change_place]

\* The for loop over the filters, from filter i on: the place to change
\* (NoPlace when no filter rejects), or what a filter raises.
RECURSIVE CheckFilters(_, _, _, _)
CheckFilters(fs, i, values, change_place) ==
    IF i > Len(fs) THEN [raised |-> "", change_place |-> change_place]
    ELSE LET filter_func == fs[i]
             filter_result ==
                 Test(filter_func.function,
                      [p \in filter_func.parameters |-> values.values[p]])
         IN IF filter_result.raised # ""
            THEN [raised |-> filter_result.raised, change_place |-> change_place]
            ELSE IF ~filter_result.result
                    /\ (change_place = NoPlace \/ filter_func.min_place < change_place)
            THEN CheckFilters(fs, i + 1, values, filter_func.min_place)
            ELSE CheckFilters(fs, i + 1, values, change_place)

\* What the inner loop of iter_between ends with.
Outcome(outcome, raised, curr_index, values, cch, examined) ==
    [outcome |-> outcome, raised |-> raised, curr_index |-> curr_index,
     values |-> values, cache |-> cch, examined |-> examined]

\* The inner loop of iter_between (while change_place is not None), entered
\* with the index and the place to change: the next candidate no filter
\* rejects ("found"), or the end of the space ("return"), or an exception
\* ("raise"). examined: the candidates built, each with the place its
\* rejection changes (NoPlace: not rejected).
RECURSIVE Search(_, _, _, _, _, _, _, _, _)

\* ... if a rejection always advanced from the last place.
FilteredStepsLast(ord, params, topo, fs, count, examined, index, ns, checked) ==
    IF checked.raised # ""
    THEN Outcome("raise", checked.raised, index, None, ns.cache, examined)
    ELSE IF checked.change_place = NoPlace
    THEN Outcome("found", "", index, ns.values, ns.cache,
                 Append(examined, [index |-> index, change_place |-> NoPlace]))
    ELSE Search(ord, params, topo, fs, index, Len(ord) - 1, count, ns.cache,
                Append(examined,
                       [index |-> index, change_place |-> checked.change_place]))

\* ... after the filters ran on the candidate.
Filtered(ord, params, topo, fs, count, examined, index, ns, checked) ==
    IF checked.raised # ""
    THEN Outcome("raise", checked.raised, index, None, ns.cache, examined)
    ELSE IF checked.change_place = NoPlace
    THEN Outcome("found", "", index, ns.values, ns.cache,
                 Append(examined, [index |-> index, change_place |-> NoPlace]))
    ELSE Search(ord, params, topo, fs, index, checked.change_place, count, ns.cache,
                Append(examined,
                       [index |-> index, change_place |-> checked.change_place]))

\* ... if an exception of _index_to_namespace were caught and the candidate
\* passed over like a rejected one.
BuiltOrPassedOver(ord, params, topo, fs, count, examined, index, ns) ==
    IF ns.raised # ""
    THEN Search(ord, params, topo, fs, index, Len(ord) - 1, count, ns.cache, examined)
    ELSE Filtered(ord, params, topo, fs, count, examined, index, ns,
                  CheckFilters(fs, 1, ns.values, NoPlace))

\* ... after _index_to_namespace built the candidate.
Built(ord, params, topo, fs, count, examined, index, ns) ==
    IF ns.raised # ""
    THEN Outcome("raise", ns.raised, index, None, ns.cache, examined)
    ELSE Filtered(ord, params, topo, fs, count, examined, index, ns,
                  CheckFilters(fs, 1, ns.values, NoPlace))

\* ... after _increment_index.
Incremented(ord, params, topo, fs, count, cch, examined, inc) ==
    IF inc.overflow
    THEN Outcome("return", "", inc.index, None, cch, examined)
    ELSE Built(ord, params, topo, fs, count, examined, inc.index,
               _index_to_namespace(ord, params, topo, cch, count, inc.index))

Search(ord, params, topo, fs, curr_index, change_place, count, cch, examined) ==
    Incremented(ord, params, topo, fs, count, cch, examined,
                _increment_index(ord, params, curr_index, change_place))

\* The outer loop of iter_between (while curr_index < end_index), from its
\* test on, up to the next yield, the return or an exception. `it` is the
\* frame of the generator.
RECURSIVE Loop(_, _, _, _, _, _)

\* if curr_index < end_index
InBounds(curr_index, end_index) == ListLess(curr_index, end_index)

\* The test of skip with <= for <: the last skipped mapping is yielded.
YieldsLastSkipped(skip, count) == skip <= count

\* if skip < count, count already incremented
Yields(skip, count) == skip < count

\* ... after the inner loop ended with s.
Searched(ord, params, topo, fs, it, s) ==
    IF s.outcome = "return"
    THEN [it |-> [it EXCEPT !.pc = "done", !.curr_index = s.curr_index,
                            !.examined = s.examined],
          cache |-> s.cache]
    ELSE IF s.outcome = "raise"
    THEN [it |-> [it EXCEPT !.pc = "raised", !.raised = s.raised,
                            !.curr_index = s.curr_index, !.examined = s.examined],
          cache |-> s.cache]
    ELSE IF InBounds(s.curr_index, it.end_index) /\ Yields(it.skip, it.count + 1)
    THEN [it |-> [it EXCEPT !.pc = "yielded", !.count = it.count + 1,
                            !.yielded = Append(it.yielded, s.values),
                            !.curr_index = s.curr_index, !.examined = s.examined],
          cache |-> s.cache]
    ELSE Loop(ord, params, topo, fs, s.cache,
              [it EXCEPT !.count = IF InBounds(s.curr_index, it.end_index)
                                   THEN it.count + 1 ELSE it.count,
                         !.curr_index = s.curr_index, !.examined = s.examined])

Loop(ord, params, topo, fs, cch, it) ==
    IF ~ListLess(it.curr_index, it.end_index)
    THEN [it |-> [it EXCEPT !.pc = "done"], cache |-> cch]
    ELSE Searched(ord, params, topo, fs, it,
                  Search(ord, params, topo, fs, it.curr_index, Len(ord) - 1,
                         it.count, cch, it.examined))

\* The argument of iter_between for a bound: None or a dict.
Bound(d) == [kind |-> "dict", d |-> d]

\* The frame of a generator iter_between(start, end, skip) before its first
\* step: the call itself runs no line of the body. yielded, examined and
\* registered (the number of filters at the first step) record its history.
Generator(start, end, skip) ==
    [pc |-> "created", start |-> start, end |-> end, skip |-> skip,
     curr_index |-> <<>>, end_index |-> <<>>, count |-> 0,
     yielded |-> <<>>, examined |-> <<>>, raised |-> "", registered |-> 0]

\* (len(order) - 1) * [0] + [-1]
BeforeFirst(ord) ==
    IF Len(ord) = 0 THEN <<-1>>
    ELSE [i \in 1..Len(ord) |-> IF i = Len(ord) THEN -1 ELSE 0]

Indexed(raised, index) == [raised |-> raised, index |-> index]

\* The index before the start: curr_index, and curr_index[-1] -= 1.
StartIndex(ord, start, s) ==
    IF start = None THEN Indexed("", BeforeFirst(ord))
    ELSE IF s.raised # "" THEN s
    ELSE IF s.index = <<>> THEN Indexed("IndexError", <<>>)
    ELSE Indexed("", [s.index EXCEPT ![Len(s.index)] = @ - 1])

\* The index of the end: end_index.
EndIndex(ord, end, e) ==
    IF end = None THEN Indexed("", [i \in 1..Len(ord) |-> inf]) ELSE e

\* The lines of iter_between before its loop, given both indices.
Bounded(it, s, e) ==
    IF s.raised # "" THEN [it EXCEPT !.pc = "raised", !.raised = s.raised]
    ELSE IF e.raised # "" THEN [it EXCEPT !.pc = "raised", !.raised = e.raised]
    ELSE [it EXCEPT !.curr_index = s.index, !.end_index = e.index]

Setup(ord, params, it) ==
    Bounded(it,
            StartIndex(ord, it.start,
                       IF it.start = None THEN Indexed("", <<>>)
                       ELSE _dict_to_index(ord, params, it.start.d)),
            EndIndex(ord, it.end,
                     IF it.end = None THEN Indexed("", <<>>)
                     ELSE _dict_to_index(ord, params, it.end.d)))

\* ... after the lines before the loop.
Started(ord, params, topo, fs, cch, frame) ==
    IF frame.pc = "raised" THEN [it |-> frame, cache |-> cch]
    ELSE Loop(ord, params, topo, fs, cch, frame)

\* One step of the generator: from its creation or its last yield to its
\* next yield, its return or an exception.
__next__(ord, params, topo, fs, cch, it) ==
    IF it.pc = "created"
    THEN Started(ord, params, topo, fs, cch,
                 Setup(ord, params, [it EXCEPT !.registered = Len(fs)]))
    ELSE Loop(ord, params, topo, fs, cch, it)

\* list(generator): the steps of a generator up to its end.
RECURSIVE Exhaust(_, _, _, _, _, _)

Stepped(ord, params, topo, fs, step) ==
    IF step.it.pc = "yielded"
    THEN Exhaust(ord, params, topo, fs, step.cache, step.it)
    ELSE step

Exhaust(ord, params, topo, fs, cch, it) ==
    Stepped(ord, params, topo, fs, __next__(ord, params, topo, fs, cch, it))

(***************************************************************************)
(* The state: the arguments of the constructor, the fields of the          *)
(* PermutationSpace, the generators made from it, the outcome of the last  *)
(* call, and the Namespace objects and the MixedRadix counter of           *)
(* src/permspace.py.                                                       *)
(***************************************************************************)
VARIABLES order, kwargs, state, _parameters, topological_order, filters, cache,
          iterators, returned, namespaces, mixed_radix

vars == <<order, kwargs, state, _parameters, topological_order, filters, cache,
          iterators, returned, namespaces, mixed_radix>>

\* The last call: the method, its argument (of filter), what it raised ("":
\* nothing) and the number it returned (of __len__).
Returned(op, arg, raised, value) ==
    [op |-> op, arg |-> arg, raised |-> raised, value |-> value]

\* The bounds a generator is made with: None, the empty dict, and dicts
\* that name one or two parameters.
Bounds == {None, Bound(EmptyDict),
           Bound([n \in {"a"} |-> IntVal(MaxDomain)]),
           Bound([n \in {"b"} |-> IntVal(2)]),
           Bound([n \in {"a", "c"} |-> IntVal(IF n = "a" THEN 1 ELSE 2)])}

\* The bounds of the generators that run in pairs.
PairBounds == {None, Bound([n \in {"a"} |-> IntVal(MaxDomain)])}

Init ==
    /\ order \in Orders
    /\ kwargs \in {its \o extra : its \in IterableKwargs(Declared(order, {})),
                                  extra \in Extras(order)}
    /\ state = "declared"
    /\ _parameters = EmptyDict
    /\ topological_order = <<>>
    /\ filters = <<>>
    /\ cache = EmptyDict
    /\ iterators = <<>>
    /\ returned = Returned("", None, "", 0)
    /\ namespaces = <<>>
    /\ mixed_radix = None

\* PermutationSpace(order, **kwargs)
Construct ==
    /\ state = "declared"
    /\ LET p == _process_parameters(order, kwargs)
           checked == _check_order(order, p.params, 1, {})
           raised == IF p.raised # "" THEN p.raised ELSE checked
       IN /\ state' = IF raised = "" THEN "ready" ELSE "failed"
          /\ _parameters' = IF raised = "" THEN p.params ELSE _parameters
          /\ topological_order' = IF raised = "" THEN p.topological_order
                                  ELSE topological_order
          /\ returned' = Returned("__init__", None, raised, 0)
    /\ UNCHANGED <<order, kwargs, filters, cache, iterators, namespaces,
                   mixed_radix>>

\* space.filter(filter_func)
Filter(filter_func) ==
    /\ state = "ready"
    /\ Len(filters) < MaxFilters
    /\ LET f == filter(order, _parameters, filter_func)
       IN /\ filters' = filters \o f.appended
          /\ returned' = Returned("filter", filter_func, f.raised, 0)
    /\ UNCHANGED <<order, kwargs, state, _parameters, topological_order, cache,
                   iterators, namespaces, mixed_radix>>

\* space.iter_between(start, end, skip): a new generator, of at most `limit`
IterBetween(start, end, skip, limit) ==
    /\ state = "ready"
    /\ Len(iterators) < limit
    /\ iterators' = Append(iterators, Generator(start, end, skip))
    /\ returned' = Returned("iter_between", None, "", 0)
    /\ UNCHANGED <<order, kwargs, state, _parameters, topological_order, filters,
                   cache, namespaces, mixed_radix>>

\* next(generator) if the counter were a field of the space, shared by its
\* generators.
ResumeShared(i, step) ==
    /\ iterators' = [j \in 1..Len(iterators) |->
                        IF j = i THEN step.it
                        ELSE IF iterators[j].pc = "yielded"
                        THEN [iterators[j] EXCEPT !.curr_index = step.it.curr_index]
                        ELSE iterators[j]]
    /\ cache' = step.cache
    /\ returned' = Returned("__next__", None,
                            IF step.it.pc = "done" THEN "StopIteration"
                            ELSE step.it.raised, 0)

\* next(generator) on the i-th generator, which ends as `step` says.
Resume(i, step) ==
    /\ iterators' = [iterators EXCEPT ![i] = step.it]
    /\ cache' = step.cache
    /\ returned' = Returned("__next__", None,
                            IF step.it.pc = "done" THEN "StopIteration"
                            ELSE step.it.raised, 0)

Pull(i) ==
    /\ state = "ready"
    /\ iterators[i].pc \in {"created", "yielded"}
    /\ Resume(i, __next__(order, _parameters, topological_order, filters, cache,
                          iterators[i]))
    /\ UNCHANGED <<order, kwargs, state, _parameters, topological_order, filters,
                   namespaces, mixed_radix>>

\* len(space): len(list(self.__iter__())), the enumeration ending as `run` says.
Counted(run) ==
    /\ cache' = run.cache
    /\ returned' = Returned("__len__", None, run.it.raised, Len(run.it.yielded))

Length ==
    /\ state = "ready"
    /\ Counted(Exhaust(order, _parameters, topological_order, filters, cache,
                       Generator(None, None, 0)))
    /\ UNCHANGED <<order, kwargs, state, _parameters, topological_order, filters,
                   iterators, namespaces, mixed_radix>>

\* One generator, with every bound and skip of the model; filters are
\* registered at any time, also between two steps of the generator.
Next ==
    \/ Construct
    \/ \E f \in Predicates : Filter(f)
    \/ \E start \in Bounds, end \in Bounds, skip \in 0..MaxSkip :
           IterBetween(start, end, skip, 1)
    \/ \E i \in 1..Len(iterators) : Pull(i)

Spec == Init /\ [][Next]_vars

\* Up to MaxIterators generators of the same space, made after the filters
\* are registered, their steps interleaved in every order.
NextPair ==
    \/ Construct
    \/ \E f \in Predicates : iterators = <<>> /\ Filter(f)
    \/ \E start \in PairBounds : IterBetween(start, None, 0, MaxIterators)
    \/ \E i \in 1..Len(iterators) : Pull(i)

SpecPair == Init /\ [][NextPair]_vars

\* len(space), between the registrations of filters.
NextLen ==
    \/ Construct
    \/ \E f \in Predicates : Filter(f)
    \/ Length

SpecLen == Init /\ [][NextLen]_vars

\* space.filter_if(antecedent_func, consequent_func)
FilterIf(antecedent_func, consequent_func) ==
    /\ state = "ready"
    /\ Len(filters) < MaxFilters
    /\ LET f == filter_if(order, _parameters, antecedent_func, consequent_func)
       IN /\ filters' = filters \o f.appended
          /\ returned' = Returned("filter_if",
                                  IfFunc(antecedent_func, consequent_func), f.raised, 0)
    /\ UNCHANGED <<order, kwargs, state, _parameters, topological_order, cache,
                   iterators, namespaces, mixed_radix>>

\* The antecedents and the consequents of the model: on a parameter of the
\* order, on a dependent, on a constant, on a name that is not a parameter.
Antecedents == {Pred({"a"}, "lt", 2), Pred({"b"}, "ne", 1), Pred({"d"}, "ne", 11),
                Pred({"k"}, "lt", 8), Pred({"u"}, "lt", 2)}

Consequents == {Pred({"a"}, "ne", 1), Pred({"b"}, "lt", 2), Pred({"e"}, "ne", 113),
                Pred({"k"}, "lt", 8)}

\* Filters registered by filter_if and by filter, before a full enumeration.
NextIf ==
    \/ Construct
    \/ \E antecedent_func \in Antecedents, consequent_func \in Consequents :
           iterators = <<>> /\ FilterIf(antecedent_func, consequent_func)
    \/ \E f \in {Pred({"a"}, "lt", 2), Pred({"b"}, "ne", 1)} :
           iterators = <<>> /\ Filter(f)
    \/ IterBetween(None, None, 0, 1)
    \/ \E i \in 1..Len(iterators) : Pull(i)

SpecIf == Init /\ [][NextIf]_vars

(***************************************************************************)
(* The constructor alone, on more declarations: orders of up to two names  *)
(* among iterables (a, b), a str (s), a constant (k), a dependent (d) and  *)
(* a name that is not declared (u); dependents declared after or before    *)
(* their arguments, in a cycle, on themselves, on a name not declared.     *)
(***************************************************************************)
OrderNamesAny == {"a", "b", "s", "k", "d", "u"}

OrdersAny ==
    {<<>>} \cup {<<n>> : n \in OrderNamesAny}
           \cup {<<n, m>> : n \in OrderNamesAny, m \in OrderNamesAny}

\* The iterables, the str and the constant of a constructor call.
Declarations ==
    {<<Kw("a", Iterable(MaxDomain))>>,
     <<Kw("a", Iterable(MaxDomain)), Kw("b", Iterable(MaxDomain))>>,
     <<Kw("a", Iterable(MaxDomain)), Kw("s", Str(<<"x", "y">>)), Kw("k", IntVal(7))>>}

\* The dependents of a constructor call.
DependentDeclarations ==
    {<<Kw("d", Callable({"a"}, 10))>>,
     <<Kw("g", Callable({"e"}, 1000)), Kw("e", Callable({"d"}, 100)),
       Kw("d", Callable({"a"}, 10))>>,
     <<Kw("d", Callable({"a"}, 10)), Kw("x", Callable({"y"}, 0)),
       Kw("y", Callable({"x"}, 0))>>,
     <<Kw("d", Callable({"a"}, 10)), Kw("w", Callable({"w", "a"}, 0))>>,
     <<Kw("d", Callable({"a"}, 10)), Kw("v", Callable({"u"}, 0))>>,
     <<Kw("z", Callable({}, 5))>>}

InitAny ==
    /\ order \in OrdersAny
    /\ kwargs \in {its \o dependents : its \in Declarations,
                                       dependents \in DependentDeclarations}
    /\ state = "declared"
    /\ _parameters = EmptyDict
    /\ topological_order = <<>>
    /\ filters = <<>>
    /\ cache = EmptyDict
    /\ iterators = <<>>
    /\ returned = Returned("", None, "", 0)
    /\ namespaces = <<>>
    /\ mixed_radix = None

NextInit == Construct

SpecInit == InitAny /\ [][NextInit]_vars

(***************************************************************************)
(* Enumerations that raise: the domain of a holds a str at one place,      *)
(* where the dependent d = 10 + a raises TypeError; the bounds name a      *)
(* value of a, the str, a constant and a name that is not declared.        *)
(***************************************************************************)
\* The values 1..n with the str "x" at place r.
Faulty(n, r) ==
    [kind |-> "iterable",
     items |-> [i \in 1..n |-> IF i = r THEN Str(<<"x">>) ELSE IntVal(i)]]

OrdersFaulty == {<<"a">>, <<"a", "b">>, <<"b", "a">>}

PredicatesFaulty == {Pred({"b"}, "ne", 1), Pred({"d"}, "ne", 11)}

BoundsFaulty == {None,
                 Bound([n \in {"a"} |-> Str(<<"x">>)]),
                 Bound([n \in {"a"} |-> IntVal(2)]),
                 Bound([n \in {"k"} |-> IntVal(7)]),
                 Bound([n \in {"u"} |-> IntVal(1)])}

InitFaulty ==
    /\ order \in OrdersFaulty
    /\ kwargs \in {<<Kw("a", Faulty(MaxDomain + 1, r))>>
                      \o (IF InList(order, "b") THEN <<Kw("b", Iterable(MaxDomain))>>
                          ELSE <<>>)
                      \o <<Kw("k", IntVal(7)), Kw("d", Callable({"a"}, 10))>> :
                   r \in 1..(MaxDomain + 1)}
    /\ state = "declared"
    /\ _parameters = EmptyDict
    /\ topological_order = <<>>
    /\ filters = <<>>
    /\ cache = EmptyDict
    /\ iterators = <<>>
    /\ returned = Returned("", None, "", 0)
    /\ namespaces = <<>>
    /\ mixed_radix = None

NextFaulty ==
    \/ Construct
    \/ \E f \in PredicatesFaulty : iterators = <<>> /\ Filter(f)
    \/ \E start \in BoundsFaulty, end \in BoundsFaulty : IterBetween(start, end, 0, 1)
    \/ \E i \in 1..Len(iterators) : Pull(i)

SpecFaulty == InitFaulty /\ [][NextFaulty]_vars

(***************************************************************************)
(* src/permspace.py: Namespace, a mapping whose keys are also attributes,  *)
(* and MixedRadix, the counter of the enumeration.  A Namespace object is  *)
(* its _internal_ dict and the entries of its __dict__ other than          *)
(* _internal_; objects are named by their position in `namespaces`.        *)
(***************************************************************************)
MaxNamespaces == 3
MaxValue == 2
MaxDigits == 2
MaxRadix == 3
MaxAdvances == 4

List(items) == [kind |-> "list", items |-> items]

\* dict.update(other)
dict_update(d, other) ==
    [k \in DOMAIN d \cup DOMAIN other |-> IF k \in DOMAIN other THEN other[k] ELSE d[k]]

\* Namespace.update(**kwargs): the bare except catches the AttributeError of
\* a new key and the KeyError raised for a key that is an attribute, so
\* every key is stored in both dicts.
update(self, kw) ==
    [_internal_ |-> dict_update(self._internal_, kw),
     __dict__ |-> dict_update(self.__dict__, kw)]

\* Namespace(**kwargs)
Namespace__init__(kw) ==
    update([_internal_ |-> EmptyDict, __dict__ |-> EmptyDict], kw)

\* self + other: `updated` is self._internal_ itself, updated in place; the
\* result is a new object made from it.
__add__(self, other) ==
    LET updated == dict_update(self._internal_, other._internal_)
    IN [self |-> [self EXCEPT !._internal_ = updated],
        result |-> Namespace__init__(updated)]

\* MixedRadix(radixes, init_values) if the last digit were not stepped back.
MixedRadixFromInit(radixes, init_values) ==
    IF init_values = None
    THEN IF radixes = <<>> THEN [raised |-> "IndexError", _state_ |-> <<>>]
         ELSE [raised |-> "", _state_ |-> [i \in 1..Len(radixes) |-> 0]]
    ELSE IF Len(radixes) # Len(init_values.items)
    THEN [raised |-> "AssertionError", _state_ |-> <<>>]
    ELSE IF ~(\A i \in 1..Len(radixes) : init_values.items[i] < radixes[i])
    THEN [raised |-> "AssertionError", _state_ |-> <<>>]
    ELSE IF radixes = <<>> THEN [raised |-> "IndexError", _state_ |-> <<>>]
    ELSE [raised |-> "", _state_ |-> init_values.items]

\* MixedRadix(radixes, init_values)
MixedRadix(radixes, init_values) ==
    LET checked ==
            IF init_values = None
            THEN [raised |-> "", _state_ |-> [i \in 1..Len(radixes) |-> 0]]
            ELSE IF Len(radixes) # Len(init_values.items)
            THEN [raised |-> "AssertionError", _state_ |-> <<>>]
            ELSE IF ~(\A i \in 1..Len(radixes) : init_values.items[i] < radixes[i])
            THEN [raised |-> "AssertionError", _state_ |-> <<>>]
            ELSE [raised |-> "", _state_ |-> init_values.items]
    IN IF checked.raised # "" THEN checked
       ELSE IF checked._state_ = <<>> THEN [raised |-> "IndexError", _state_ |-> <<>>]
       ELSE [raised |-> "",
             _state_ |-> [checked._state_ EXCEPT ![Len(radixes)] = @ - 1]]

\* ... if the digits after min_place were left as they are.
LeftAsIs(_state_, min_place) == _state_

\* for index in range(min_place + 1, len(self._state_)): self._state_[index] = 0
Zeroed(_state_, min_place) ==
    [i \in 1..Len(_state_) |-> IF i > min_place + 1 THEN 0 ELSE _state_[i]]

\* for index in reversed(range(min_place + 1)), from the digit at position i.
RECURSIVE Carry(_, _, _)
Carry(radixes, _state_, i) ==
    IF i = 0 THEN [raised |-> "", _state_ |-> _state_]
    ELSE IF _state_[i] < radixes[i] - 1
    THEN [raised |-> "", _state_ |-> [_state_ EXCEPT ![i] = @ + 1]]
    ELSE IF i = 1 THEN [raised |-> "StopIteration", _state_ |-> _state_]
    ELSE Carry(radixes, [_state_ EXCEPT ![i] = 0], i - 1)

\* MixedRadix.next(min_place)
next(self, min_place) ==
    LET place == IF min_place = None THEN Len(self._state_) - 1 ELSE min_place.v
    IN Carry(self.radixes, Zeroed(self._state_, place), place + 1)

\* The keyword arguments of Namespace(**kwargs).
NamespaceKeys == {"x", "y"}

NamespaceKwargs ==
    UNION {[keys -> {IntVal(v) : v \in 1..MaxValue}] : keys \in SUBSET NamespaceKeys}

\* The arguments of MixedRadix(radixes, init_values): up to MaxDigits digits
\* of radix 1..MaxRadix; init_values of any length, in range or not.
RadixVectors ==
    UNION {[1..n -> 1..MaxRadix] : n \in 0..MaxDigits}

InitValues ==
    {None} \cup {List(v) : v \in UNION {[1..n -> 0..(MaxRadix - 1)] : n \in 0..MaxDigits}}

InitOld ==
    /\ order = <<>>
    /\ kwargs = <<>>
    /\ state = "declared"
    /\ _parameters = EmptyDict
    /\ topological_order = <<>>
    /\ filters = <<>>
    /\ cache = EmptyDict
    /\ iterators = <<>>
    /\ returned = Returned("", None, "", 0)
    /\ namespaces = <<>>
    /\ mixed_radix = None

\* Namespace(**kw)
NamespaceNew(kw) ==
    /\ Len(namespaces) < MaxNamespaces
    /\ namespaces' = Append(namespaces, Namespace__init__(kw))
    /\ returned' = Returned("Namespace", None, "", Len(namespaces) + 1)
    /\ UNCHANGED <<order, kwargs, state, _parameters, topological_order, filters,
                   cache, iterators, mixed_radix>>

\* namespaces[i] + namespaces[j]
NamespaceAdd(i, j) ==
    /\ Len(namespaces) < MaxNamespaces
    /\ LET sum == __add__(namespaces[i], namespaces[j])
       IN namespaces' = Append([namespaces EXCEPT ![i] = sum.self], sum.result)
    /\ returned' = Returned("__add__", <<i, j>>, "", Len(namespaces) + 1)
    /\ UNCHANGED <<order, kwargs, state, _parameters, topological_order, filters,
                   cache, iterators, mixed_radix>>

(***************************************************************************)
(* src/permspace.py: one Namespace, its keys set and deleted by attribute  *)
(* and by key.  "_u_" is a key that starts and ends with an underscore.    *)
(***************************************************************************)
OrdinaryKeys == NamespaceKeys

AnyKeys == OrdinaryKeys \cup {"_u_"}

NamespaceValues == {IntVal(v) : v \in 1..MaxValue}

\* key.startswith('_') and key.endswith('_')
Underscored(key) == key \in {"_u_"}

\* del d[key]
dict_del(d, key) == [k \in DOMAIN d \ {key} |-> d[k]]

Got(raised, value) == [raised |-> raised, value |-> value]

\* setattr(self, key, value)
__setattr__(self, key, value) ==
    [_internal_ |-> IF Underscored(key) THEN self._internal_
                    ELSE DictSet(self._internal_, key, value),
     __dict__ |-> DictSet(self.__dict__, key, value)]

\* self[key] = value
__setitem__(self, key, value) == __setattr__(self, key, value)

\* __delattr__ if it deleted the key from _internal_ only.
DeleteFromInternal(self, key) ==
    IF key \in DOMAIN self._internal_
    THEN [raised |-> "",
          self |-> [self EXCEPT !._internal_ = dict_del(self._internal_, key)]]
    ELSE [raised |-> "", self |-> self]

\* delattr(self, key): nothing for a key that is not in _internal_.
__delattr__(self, key) ==
    IF key \in DOMAIN self._internal_
    THEN IF key \in DOMAIN self.__dict__
         THEN [raised |-> "",
               self |-> [_internal_ |-> dict_del(self._internal_, key),
                         __dict__ |-> dict_del(self.__dict__, key)]]
         ELSE [raised |-> "KeyError",
               self |-> [self EXCEPT !._internal_ = dict_del(self._internal_, key)]]
    ELSE [raised |-> "", self |-> self]

\* del self[key]
__delitem__(self, key) ==
    IF key \in DOMAIN self._internal_ THEN __delattr__(self, key)
    ELSE [raised |-> "KeyError", self |-> self]

\* getattr(self, key): the attribute of the object, and __getattr__ when
\* there is none.
__getattr__(self, key) ==
    IF key \in DOMAIN self.__dict__ THEN Got("", self.__dict__[key])
    ELSE IF key \in DOMAIN self._internal_ THEN Got("", self._internal_[key])
    ELSE Got("AttributeError", None)

\* self[key]
__getitem__(self, key) ==
    LET got == __getattr__(self, key)
    IN IF got.raised = "AttributeError" THEN Got("KeyError", None) ELSE got

\* key in self
__contains__(self, key) == key \in DOMAIN self._internal_

\* self.keys()
keys(self) == DOMAIN self._internal_

\* An operation on the i-th Namespace that leaves it as `self`.
Operated(i, op, key, value, raised, self) ==
    /\ namespaces' = [namespaces EXCEPT ![i] = self]
    /\ returned' = Returned(op, [i |-> i, key |-> key, value |-> value], raised, 0)
    /\ UNCHANGED <<order, kwargs, state, _parameters, topological_order, filters,
                   cache, iterators, mixed_radix>>

\* namespaces[i].key = value
NamespaceSetAttr(i, key, value) ==
    Operated(i, "__setattr__", key, value, "", __setattr__(namespaces[i], key, value))

\* namespaces[i][key] = value
NamespaceSetItem(i, key, value) ==
    Operated(i, "__setitem__", key, value, "", __setitem__(namespaces[i], key, value))

\* del namespaces[i].key
NamespaceDelAttr(i, key) ==
    LET deleted == __delattr__(namespaces[i], key)
    IN Operated(i, "__delattr__", key, None, deleted.raised, deleted.self)

\* del namespaces[i][key]
NamespaceDelItem(i, key) ==
    LET deleted == __delitem__(namespaces[i], key)
    IN Operated(i, "__delitem__", key, None, deleted.raised, deleted.self)

\* One Namespace, made with any keyword arguments, then set and deleted.
NextNamespaceKeys ==
    \/ \E kw \in NamespaceKwargs : namespaces = <<>> /\ NamespaceNew(kw)
    \/ \E i \in 1..Len(namespaces), key \in AnyKeys, value \in NamespaceValues :
           NamespaceSetAttr(i, key, value)
    \/ \E i \in 1..Len(namespaces), key \in AnyKeys, value \in NamespaceValues :
           NamespaceSetItem(i, key, value)
    \/ \E i \in 1..Len(namespaces), key \in AnyKeys : NamespaceDelAttr(i, key)
    \/ \E i \in 1..Len(namespaces), key \in AnyKeys : NamespaceDelItem(i, key)

SpecNamespaceKeys == InitOld /\ [][NextNamespaceKeys]_vars

NextNamespace ==
    \/ \E kw \in NamespaceKwargs : NamespaceNew(kw)
    \/ \E i \in 1..Len(namespaces), j \in 1..Len(namespaces) : NamespaceAdd(i, j)

SpecNamespace == InitOld /\ [][NextNamespace]_vars

\* MixedRadix(radixes, init_values): the counter, the arguments it was made
\* with and the number of its advances.
MixedRadixNew(radixes, init_values) ==
    /\ mixed_radix = None
    /\ LET made == MixedRadix(radixes, init_values)
       IN /\ mixed_radix' = [pc |-> IF made.raised = "" THEN "ready" ELSE "failed",
                             radixes |-> radixes,
                             init_values |-> init_values,
                             _state_ |-> made._state_,
                             advances |-> 0]
          /\ returned' = Returned("MixedRadix", None, made.raised, 0)
    /\ UNCHANGED <<order, kwargs, state, _parameters, topological_order, filters,
                   cache, iterators, namespaces>>

\* counter.next(min_place)
MixedRadixNext(min_place) ==
    /\ mixed_radix # None
    /\ mixed_radix.pc = "ready"
    /\ mixed_radix.advances < MaxAdvances
    /\ LET step == next(mixed_radix, min_place)
       IN /\ mixed_radix' = [mixed_radix EXCEPT !._state_ = step._state_,
                                                !.advances = @ + 1]
          /\ returned' = Returned("next", min_place, step.raised,
                                  IF step.raised = "" THEN step._state_ ELSE <<>>)
    /\ UNCHANGED <<order, kwargs, state, _parameters, topological_order, filters,
                   cache, iterators, namespaces>>

\* The min_place of an advance: None or a place of the counter.
MinPlaces ==
    {None} \cup {IntVal(p) : p \in 0..(MaxDigits - 1)}

NextMixedRadix ==
    \/ \E radixes \in RadixVectors, init_values \in InitValues :
           MixedRadixNew(radixes, init_values)
    \/ \E min_place \in MinPlaces :
           /\ mixed_radix # None
           /\ min_place # None => min_place.v < Len(mixed_radix.radixes)
           /\ MixedRadixNext(min_place)

SpecMixedRadix == InitOld /\ [][NextMixedRadix]_vars

(***************************************************************************)
(* Reference definitions of the properties: the cross-product by           *)
(* arithmetic, with no counter and no jump.                                *)
(***************************************************************************)
Ready == state = "ready"

\* The number of values of the parameter at place i of the order (1-based).
Radix(i) == Len(_parameters[order[i]].value.items)

\* The product of the radixes of the places from i on: 1 for no place.
RECURSIVE RadixProduct(_)
RadixProduct(i) == IF i > Len(order) THEN 1 ELSE Radix(i) * RadixProduct(i + 1)

\* The number of combinations of the cross-product.
Size == RadixProduct(1)

\* The digits of combination j (0-based) in lexicographic order, the last
\* place varying fastest.
Digits(j) == [i \in 1..Len(order) |-> (j \div RadixProduct(i + 1)) % Radix(i)]

\* The mapping of a combination: every parameter computed directly.
Mapping(digits) ==
    _index_to_namespace(order, _parameters, topological_order, EmptyDict, 0,
                        digits).values.values

\* Every filter returns truthy on the mapping.
Passes(fs, values) ==
    \A i \in 1..Len(fs) :
        LET t == Test(fs[i].function, [p \in fs[i].parameters |-> values[p]])
        IN t.raised = "" /\ t.result

\* The whole cross-product in order, and the combinations every filter
\* accepts.
CrossProduct == [j \in 1..Size |-> Mapping(Digits(j - 1))]

Naive ==
    LET Accepted(values) == Passes(filters, values)
    IN SelectSeq(CrossProduct, Accepted)

ValuesOf(yielded) == [j \in 1..Len(yielded) |-> yielded[j].values]

IsPrefix(s, t) == Len(s) <= Len(t) /\ \A j \in 1..Len(s) : s[j] = t[j]

\* A generator of a full enumeration: __iter__, iter_between().
IsFull(it) == it.start = None /\ it.end = None /\ it.skip = 0

\* The generator ran some step, and no filter was registered since its
\* first step.
Settled(it) == it.pc # "created" /\ it.registered = Len(filters)

Finished(it) == it.pc \in {"done", "raised"}

\* The values of the parameters of the order in a mapping.
OrderValues(values) == [p \in {order[i] : i \in 1..Len(order)} |-> values[p]]

\* Some candidate of the generator was rejected by a filter.
Rejected(it) == \E j \in 1..Len(it.examined) : it.examined[j].change_place # NoPlace

(***************************************************************************)
(* C1: a full enumeration yields, in content and order, the combinations   *)
(* of the whole cross-product on which every registered filter is truthy:  *)
(* at every moment what it has yielded is the beginning of that sequence,  *)
(* and when it ends it has yielded all of it.                              *)
(***************************************************************************)
C1_FilterJumpCompleteness ==
    Ready =>
        \A i \in 1..Len(iterators) :
            (IsFull(iterators[i]) /\ Settled(iterators[i])) =>
                /\ IsPrefix(ValuesOf(iterators[i].yielded), Naive)
                /\ Finished(iterators[i]) => ValuesOf(iterators[i].yielded) = Naive

\* C1 for the orders that name a parameter: there no jump skips a combination.
C1_WithParameters ==
    (Ready /\ order # <<>>) =>
        \A i \in 1..Len(iterators) :
            (IsFull(iterators[i]) /\ Settled(iterators[i])) =>
                /\ IsPrefix(ValuesOf(iterators[i].yielded), Naive)
                /\ Finished(iterators[i]) => ValuesOf(iterators[i].yielded) = Naive

\* A full enumeration ended after a jump: a filter rejected a candidate at a
\* place before the last, and combinations were yielded.
C1_Jumped ==
    /\ Ready
    /\ \E i \in 1..Len(iterators) :
           /\ IsFull(iterators[i]) /\ Settled(iterators[i])
           /\ iterators[i].pc = "done"
           /\ Len(iterators[i].yielded) >= 2
           /\ \E j \in 1..Len(iterators[i].examined) :
                  /\ iterators[i].examined[j].change_place # NoPlace
                  /\ iterators[i].examined[j].change_place < Len(order) - 1

(***************************************************************************)
(* C3: with no filter and no bound, the mappings yielded are the           *)
(* cross-product of the domains in lexicographic order, the first entry of *)
(* the order slowest and the last fastest, each combination once.          *)
(***************************************************************************)
C3_LexicographicProduct ==
    (Ready /\ filters = <<>>) =>
        \A i \in 1..Len(iterators) :
            (IsFull(iterators[i]) /\ Settled(iterators[i])) =>
                /\ Len(iterators[i].yielded) <= Size
                /\ \A j \in 1..Len(iterators[i].yielded) :
                       OrderValues(iterators[i].yielded[j].values)
                           = Independents(order, _parameters, Digits(j - 1))
                /\ Finished(iterators[i]) => Len(iterators[i].yielded) = Size

\* C3 for the orders that name a parameter.
C3_WithParameters ==
    (Ready /\ filters = <<>> /\ order # <<>>) =>
        \A i \in 1..Len(iterators) :
            (IsFull(iterators[i]) /\ Settled(iterators[i])) =>
                /\ Len(iterators[i].yielded) <= Size
                /\ \A j \in 1..Len(iterators[i].yielded) :
                       OrderValues(iterators[i].yielded[j].values)
                           = Independents(order, _parameters, Digits(j - 1))
                /\ Finished(iterators[i]) => Len(iterators[i].yielded) = Size

(***************************************************************************)
(* C4: with no filter registered, len(space) is the product of the sizes   *)
(* of the domains of the parameters of the order (1 for an order that      *)
(* names no parameter).                                                    *)
(***************************************************************************)
C4_LenIsProduct ==
    (Ready /\ returned.op = "__len__" /\ filters = <<>>) =>
        returned.raised = "" /\ returned.value = Size

\* C4 for the orders that name a parameter.
C4_WithParameters ==
    (Ready /\ returned.op = "__len__" /\ filters = <<>> /\ order # <<>>) =>
        returned.raised = "" /\ returned.value = Size

(***************************************************************************)
(* C2: every mapping a generator yields, whatever its bounds and its skip, *)
(* satisfies every filter registered on the space at the step that yields  *)
(* it, the filters registered after the generator started included.        *)
(***************************************************************************)
C2_FilterSoundness ==
    [][\A i \in 1..Len(iterators) :
           (Len(iterators') >= i
            /\ Len(iterators'[i].yielded) > Len(iterators[i].yielded)) =>
               Passes(filters',
                      iterators'[i].yielded[Len(iterators'[i].yielded)].values)]_vars

\* A generator yielded a mapping after a filter, registered after its first
\* step, rejected a candidate.
C2_YieldedAfterRejection ==
    /\ Ready
    /\ \E i \in 1..Len(iterators) :
           /\ iterators[i].pc = "yielded"
           /\ iterators[i].registered < Len(filters)
           /\ Len(filters) = MaxFilters
           /\ Len(iterators[i].yielded) >= 2
           /\ iterators[i].examined[Len(iterators[i].examined) - 1].change_place
                  # NoPlace

(***************************************************************************)
(* Reference definitions of the bounds.                                    *)
(***************************************************************************)
OrderNames == {order[i] : i \in 1..Len(order)}

\* A bound the space accepts: it names parameters of the order, with values
\* of their domains.
ValidBound(b) ==
    b = None \/ (/\ DOMAIN b.d \subseteq OrderNames
                 /\ \A n \in DOMAIN b.d : InList(_parameters[n].value.items, b.d[n]))

\* The digit vector of a mapping and of a bound: the parameters a bound
\* does not name are at digit 0; `absent` is the digit of an absent bound.
DigitsOf(values) ==
    [i \in 1..Len(order) |-> ListIndex(_parameters[order[i]].value.items,
                                       values[order[i]])]

BoundDigits(b, absent) ==
    [i \in 1..Len(order) |->
        IF b = None THEN absent
        ELSE IF order[i] \in DOMAIN b.d
        THEN ListIndex(_parameters[order[i]].value.items, b.d[order[i]])
        ELSE 0]

\* The enumeration of a new generator on the space as it is, run alone from
\* an empty cache.
Alone(start, end, skip) ==
    Exhaust(order, _parameters, topological_order, filters, EmptyDict,
            Generator(start, end, skip)).it

\* The mappings of the unbounded enumeration between the bounds.
Between(start, end) ==
    LET Inside(values) ==
            /\ ~ListLess(DigitsOf(values), BoundDigits(start, 0))
            /\ ListLess(DigitsOf(values), BoundDigits(end, inf))
    IN SelectSeq(ValuesOf(Alone(None, None, 0).yielded), Inside)

(***************************************************************************)
(* C5: iter_between(start, end) yields, in the same order, the mappings of *)
(* the unbounded filtered enumeration whose digits are >= those of start   *)
(* and < those of end, a parameter a bound does not name at digit 0: what  *)
(* it has yielded is always the beginning of that sequence, and it ends    *)
(* normally having yielded all of it.                                      *)
(***************************************************************************)
C5_IterBetween ==
    Ready =>
        \A i \in 1..Len(iterators) :
            (/\ Settled(iterators[i]) /\ iterators[i].skip = 0
             /\ ValidBound(iterators[i].start) /\ ValidBound(iterators[i].end)) =>
                /\ IsPrefix(ValuesOf(iterators[i].yielded),
                            Between(iterators[i].start, iterators[i].end))
                /\ Finished(iterators[i]) =>
                       /\ iterators[i].pc = "done"
                       /\ ValuesOf(iterators[i].yielded)
                              = Between(iterators[i].start, iterators[i].end)

\* C5 for the orders that name a parameter.
C5_WithParameters ==
    (Ready /\ order # <<>>) =>
        \A i \in 1..Len(iterators) :
            (/\ Settled(iterators[i]) /\ iterators[i].skip = 0
             /\ ValidBound(iterators[i].start) /\ ValidBound(iterators[i].end)) =>
                /\ IsPrefix(ValuesOf(iterators[i].yielded),
                            Between(iterators[i].start, iterators[i].end))
                /\ Finished(iterators[i]) =>
                       /\ iterators[i].pc = "done"
                       /\ ValuesOf(iterators[i].yielded)
                              = Between(iterators[i].start, iterators[i].end)

\* A generator with both bounds ended having yielded a part of the unbounded
\* enumeration, a filter having rejected a candidate.
C5_BoundedBothSides ==
    /\ Ready
    /\ \E i \in 1..Len(iterators) :
           /\ Settled(iterators[i]) /\ iterators[i].skip = 0
           /\ iterators[i].start # None /\ iterators[i].end # None
           /\ DOMAIN iterators[i].start.d # {} /\ DOMAIN iterators[i].end.d # {}
           /\ ValidBound(iterators[i].start) /\ ValidBound(iterators[i].end)
           /\ iterators[i].pc = "done"
           /\ Rejected(iterators[i])
           /\ iterators[i].yielded # <<>>
           /\ Len(iterators[i].yielded) < Len(Alone(None, None, 0).yielded)

(***************************************************************************)
(* C6: iter_between(start, end, skip=k) yields the sequence of             *)
(* iter_between(start, end) without its first k mappings, the mappings     *)
(* numbered as in that sequence, and ends as it ends; the rejected         *)
(* combinations do not count, and nothing is yielded when it has no more   *)
(* than k mappings.                                                        *)
(***************************************************************************)
Drop(k, seq) == [j \in 1..(IF Len(seq) > k THEN Len(seq) - k ELSE 0) |-> seq[j + k]]

C6_Skip ==
    Ready =>
        \A i \in 1..Len(iterators) :
            Settled(iterators[i]) =>
                /\ IsPrefix(iterators[i].yielded,
                            Drop(iterators[i].skip,
                                 Alone(iterators[i].start, iterators[i].end, 0).yielded))
                /\ Finished(iterators[i]) =>
                       /\ iterators[i].yielded
                              = Drop(iterators[i].skip,
                                     Alone(iterators[i].start, iterators[i].end,
                                           0).yielded)
                       /\ iterators[i].pc
                              = Alone(iterators[i].start, iterators[i].end, 0).pc

\* A generator with a skip ended having yielded mappings, a filter having
\* rejected a candidate before the first accepted one.
C6_Skipped ==
    /\ Ready
    /\ \E i \in 1..Len(iterators) :
           /\ Settled(iterators[i])
           /\ iterators[i].skip >= 1
           /\ iterators[i].pc = "done"
           /\ iterators[i].yielded # <<>>
           /\ iterators[i].examined[1].change_place # NoPlace

\* A generator with a skip ended having yielded nothing, the enumeration
\* without the skip having no more mappings than the skip.
C6_SkippedAll ==
    /\ Ready
    /\ \E i \in 1..Len(iterators) :
           /\ Settled(iterators[i])
           /\ iterators[i].skip >= 1
           /\ iterators[i].pc = "done"
           /\ iterators[i].yielded = <<>>
           /\ Len(Alone(iterators[i].start, iterators[i].end, 0).yielded)
                  = iterators[i].skip

(***************************************************************************)
(* C7: in every mapping yielded, the value of every parameter declared     *)
(* with a callable, whatever the number of its arguments, is the result of *)
(* the callable on the values of its arguments in that mapping.            *)
(***************************************************************************)
Computed(values, p) ==
    Call(KwGet(kwargs, p), [k \in Signature(KwGet(kwargs, p)) |-> values[k]])

C7_DependentsComputed ==
    Ready =>
        \A i \in 1..Len(iterators) :
            \A j \in 1..Len(iterators[i].yielded) :
                \A p \in KwNames(kwargs) :
                    HasCall(KwGet(kwargs, p)) =>
                        /\ Computed(iterators[i].yielded[j].values, p).raised = ""
                        /\ iterators[i].yielded[j].values[p]
                               = Computed(iterators[i].yielded[j].values, p).result

\* C7 for the callables that have an argument.
C7_WithArguments ==
    Ready =>
        \A i \in 1..Len(iterators) :
            \A j \in 1..Len(iterators[i].yielded) :
                \A p \in KwNames(kwargs) :
                    (HasCall(KwGet(kwargs, p)) /\ Signature(KwGet(kwargs, p)) # {}) =>
                        /\ Computed(iterators[i].yielded[j].values, p).raised = ""
                        /\ iterators[i].yielded[j].values[p]
                               = Computed(iterators[i].yielded[j].values, p).result

(***************************************************************************)
(* C8: two full enumerations of the same space, with the same filters,     *)
(* yield the same sequence of mappings and end the same way, the second    *)
(* reading the cache of dependent values the first has filled.             *)
(***************************************************************************)
C8_Idempotence ==
    Ready =>
        \A i \in 1..Len(iterators), j \in 1..Len(iterators) :
            (/\ IsFull(iterators[i]) /\ IsFull(iterators[j])
             /\ Finished(iterators[i]) /\ Finished(iterators[j])) =>
                /\ iterators[i].yielded = iterators[j].yielded
                /\ iterators[i].pc = iterators[j].pc
                /\ iterators[i].yielded = Alone(None, None, 0).yielded

\* Two full enumerations of a filtered space ended, the first before the
\* second started; dependents were read from the cache.
C8_EnumeratedTwice ==
    /\ Ready
    /\ Len(iterators) = 2
    /\ IsFull(iterators[1]) /\ IsFull(iterators[2])
    /\ iterators[1].pc = "done" /\ iterators[2].pc = "done"
    /\ Len(iterators[1].yielded) >= 2
    /\ Rejected(iterators[2])
    /\ DOMAIN cache # {}

(***************************************************************************)
(* C9: generators of the same space whose steps are interleaved in any     *)
(* order each yield the sequence they yield when run alone, and end as     *)
(* they end alone: a generator's counter stays at the combination it       *)
(* yielded last whatever the steps of the others.                          *)
(***************************************************************************)
C9_Interleaving ==
    Ready =>
        \A i \in 1..Len(iterators) :
            iterators[i].pc # "created" =>
                /\ IsPrefix(iterators[i].yielded,
                            Alone(iterators[i].start, iterators[i].end,
                                  iterators[i].skip).yielded)
                /\ iterators[i].pc = "yielded" =>
                       iterators[i].curr_index
                           = DigitsOf(iterators[i].yielded[Len(iterators[i].yielded)].values)
                /\ Finished(iterators[i]) =>
                       /\ iterators[i].yielded
                              = Alone(iterators[i].start, iterators[i].end,
                                      iterators[i].skip).yielded
                       /\ iterators[i].pc
                              = Alone(iterators[i].start, iterators[i].end,
                                      iterators[i].skip).pc

\* Two generators are both in the middle of their enumerations, at
\* different combinations.
C9_Interleaved ==
    /\ Ready
    /\ Len(iterators) = 2
    /\ iterators[1].pc = "yielded" /\ iterators[2].pc = "yielded"
    /\ Len(iterators[1].yielded) >= 2
    /\ Len(iterators[2].yielded) >= 2
    /\ iterators[1].start = iterators[2].start
    /\ iterators[1].curr_index # iterators[2].curr_index

(***************************************************************************)
(* C10: filter() with a predicate that names an argument that is not a     *)
(* parameter raises ValueError and leaves the space as it was: the list of *)
(* filters is not extended and a full enumeration yields the same sequence *)
(* after the call as before it.                                            *)
(***************************************************************************)
\* list(space) on a space with these filters and this cache.
FullEnumeration(fs, cch) ==
    Exhaust(order, _parameters, topological_order, fs, cch,
            Generator(None, None, 0)).it

C10_UndeclaredArgument ==
    [][\A f \in Predicates :
           (~(Signature(f) \subseteq DOMAIN _parameters) /\ Filter(f)) =>
               /\ returned'.raised = "ValueError"
               /\ filters' = filters
               /\ UNCHANGED <<order, _parameters, topological_order, iterators>>
               /\ FullEnumeration(filters', cache') = FullEnumeration(filters, cache)]_vars

\* filter() raised ValueError for a predicate on a name that is not a
\* parameter, on a space that has a filter and a generator that yielded.
C10_Refused ==
    /\ Ready
    /\ returned.op = "filter"
    /\ returned.raised = "ValueError"
    /\ ~(Signature(returned.arg) \subseteq DOMAIN _parameters)
    /\ filters # <<>>
    /\ \E i \in 1..Len(iterators) : iterators[i].pc = "yielded"

C11_OrderArguments ==
    [][\A f \in Predicates :
           (/\ Signature(f) \subseteq DOMAIN _parameters
            /\ _get_dependencies(_parameters, Signature(f)) # {}
            /\ _get_dependencies(_parameters, Signature(f)) \subseteq OrderNames
            /\ Filter(f)) =>
               /\ returned'.raised = ""
               /\ Len(filters') = Len(filters) + 1
               /\ filters'[Len(filters')].function = f
               /\ filters'[Len(filters')].parameters = Signature(f)
               /\ FullEnumeration(filters', cache').pc = "done"]_vars

(***************************************************************************)
(* Reference definitions of the constructor's errors.                      *)
(***************************************************************************)
Constructed == state # "declared"

Refused == state = "failed" /\ returned.op = "__init__" /\ returned.raised = "ValueError"

ListedTwice == \E i \in 1..Len(order), j \in 1..Len(order) : i # j /\ order[i] = order[j]

NotDeclared == \E i \in 1..Len(order) : order[i] \notin KwNames(kwargs)

(***************************************************************************)
(* C12: the constructor raises ValueError, and no space is made, when the  *)
(* order lists a name twice or lists a name that is not declared.          *)
(***************************************************************************)
C12_OrderErrors == (Constructed /\ (ListedTwice \/ NotDeclared)) => Refused

\* The constructor refused an order that lists an iterable twice, every
\* dependent having its arguments.
C12_RefusedTwice ==
    /\ Refused
    /\ order = <<"a", "a">>
    /\ \A p \in KwNames(kwargs) :
           HasCall(KwGet(kwargs, p)) => Signature(KwGet(kwargs, p)) \subseteq KwNames(kwargs)

\* The constructor refused an order that lists a name not declared.
C12_RefusedNotDeclared == Refused /\ order = <<"a", "u">>

(***************************************************************************)
(* C13: the constructor raises ValueError whenever the names of the order  *)
(* are not exactly the independent parameters, the declared values that    *)
(* are iterable and no str: an iterable left out of the order is an error, *)
(* and so is a constant, a str or a dependent named in the order.          *)
(***************************************************************************)
IndependentNames == {p \in KwNames(kwargs) : KwGet(kwargs, p).kind = "iterable"}

C13_OrderIsTheIndependents ==
    (Constructed /\ {order[i] : i \in 1..Len(order)} # IndependentNames) => Refused

\* C13 for the orders that name a constant that is no str, a dependent or a
\* name not declared.
C13_NotIterable ==
    (Constructed /\ \E i \in 1..Len(order) :
                        \/ order[i] \notin KwNames(kwargs)
                        \/ ~HasIter(KwGet(kwargs, order[i]))) => Refused

\* The constructor made a space from an order that leaves an iterable out.
C13_IterableLeftOut ==
    /\ state = "ready"
    /\ \E p \in IndependentNames : ~InList(order, p)

\* The constructor made a space from an order that names a str.
C13_StrInOrder == state = "ready" /\ InList(order, "s")

(***************************************************************************)
(* C14: for an order of distinct declared iterables, the constructor       *)
(* raises ValueError exactly when some dependent cannot be placed: one of  *)
(* its arguments is not declared, or the dependents form a cycle, a        *)
(* dependent on itself included. Otherwise the space is made, and its      *)
(* topological order lists every dependent once, after each dependent it   *)
(* takes as an argument.                                                   *)
(***************************************************************************)
DependentNames == {p \in KwNames(kwargs) : HasCall(KwGet(kwargs, p))}

\* The names that can be computed, from below: those that are no dependent,
\* then the dependents whose arguments can all be computed.
RECURSIVE Computable(_)
Computable(known) ==
    LET more == {p \in DependentNames \ known : Signature(KwGet(kwargs, p)) \subseteq known}
    IN IF more = {} THEN known ELSE Computable(known \cup more)

Unplaceable == DependentNames \ Computable(KwNames(kwargs) \ DependentNames)

OrderOfIterables ==
    /\ ~ListedTwice
    /\ \A i \in 1..Len(order) :
           order[i] \in KwNames(kwargs) /\ HasIter(KwGet(kwargs, order[i]))

C14_TopologicalOrder ==
    (Constructed /\ OrderOfIterables) =>
        /\ Unplaceable # {} => Refused
        /\ Unplaceable = {} =>
               /\ state = "ready"
               /\ \A p \in DependentNames :
                      /\ Cardinality({i \in 1..Len(topological_order) :
                                         topological_order[i] = p}) = 1
                      /\ \A q \in Signature(KwGet(kwargs, p)) \cap DependentNames :
                             /\ InList(topological_order, q)
                             /\ ListIndex(topological_order, q)
                                    < ListIndex(topological_order, p)

\* The constructor refused dependents in a cycle, the order being valid.
C14_RefusedCycle ==
    /\ Refused /\ OrderOfIterables
    /\ \E p \in Unplaceable, q \in Unplaceable :
           /\ p # q
           /\ q \in Signature(KwGet(kwargs, p)) /\ p \in Signature(KwGet(kwargs, q))

\* The constructor placed a chain of three dependents declared in reverse.
C14_PlacedChain ==
    /\ state = "ready"
    /\ order # <<>>
    /\ InList(topological_order, "g")
    /\ ListIndex(topological_order, "d") < ListIndex(topological_order, "e")
    /\ ListIndex(topological_order, "e") < ListIndex(topological_order, "g")

(***************************************************************************)
(* C15: a bound that names something other than a parameter of the order,  *)
(* or a value that is not in the domain of the parameter it names, is      *)
(* refused with ValueError before any mapping is yielded.                  *)
(***************************************************************************)
BadBound(b) ==
    b # None /\ \E n \in DOMAIN b.d :
                    \/ n \notin OrderNames
                    \/ ~InList(_parameters[n].value.items, b.d[n])

\* The bound names a parameter that is no parameter of the order.
NamesOther(b) == b # None /\ \E n \in DOMAIN b.d : n \in DOMAIN _parameters \ OrderNames

C15_BadBounds ==
    Ready =>
        \A i \in 1..Len(iterators) :
            (/\ iterators[i].pc # "created"
             /\ BadBound(iterators[i].start) \/ BadBound(iterators[i].end)) =>
                /\ iterators[i].pc = "raised"
                /\ iterators[i].raised = "ValueError"
                /\ iterators[i].yielded = <<>>

\* C15 for the bounds that name no constant and no dependent.
C15_NotDeclaredOrNotInDomain ==
    Ready =>
        \A i \in 1..Len(iterators) :
            (/\ iterators[i].pc # "created"
             /\ BadBound(iterators[i].start) \/ BadBound(iterators[i].end)
             /\ ~NamesOther(iterators[i].start) /\ ~NamesOther(iterators[i].end)) =>
                /\ iterators[i].pc = "raised"
                /\ iterators[i].raised = "ValueError"
                /\ iterators[i].yielded = <<>>

(***************************************************************************)
(* Reference definitions of the combinations a generator passes.           *)
(***************************************************************************)
\* A dependent raises on the combination.
Raises(digits) ==
    _index_to_namespace(order, _parameters, topological_order, EmptyDict, 0,
                        digits).raised # ""

AllDigits == [j \in 1..Size |-> Digits(j - 1)]

\* The combination is within the bounds of the generator.
Within(it, digits) ==
    /\ ~ListLess(digits, BoundDigits(it.start, 0))
    /\ ListLess(digits, BoundDigits(it.end, inf))

\* The mappings of the accepted combinations within the bounds of the
\* generator and before `limit`, in order.
AcceptedBefore(it, limit) ==
    LET Accepted(digits) ==
            /\ Within(it, digits) /\ ListLess(digits, limit)
            /\ ~Raises(digits) /\ Passes(filters, Mapping(digits))
        selected == SelectSeq(AllDigits, Accepted)
    IN [j \in 1..Len(selected) |-> Mapping(selected[j])]

\* A rejection jumped over the combination: an earlier candidate was
\* rejected at a place up to which the combination has the same digits.
JumpedOver(it, digits) ==
    \E j \in 1..Len(it.examined) :
        /\ it.examined[j].change_place # NoPlace
        /\ ListLess(it.examined[j].index, digits)
        /\ \A q \in 1..(it.examined[j].change_place + 1) :
               digits[q] = it.examined[j].index[q]

(***************************************************************************)
(* C16: when a dependent raises on a combination, a generator that reaches *)
(* it has yielded every accepted mapping before it and then raises that    *)
(* error, at the step where the combination would be yielded; a generator  *)
(* that yields or ends normally has passed no such combination except by   *)
(* the jump of a rejection, and yields no such combination.                *)
(***************************************************************************)
C16_DependentRaises ==
    Ready =>
        \A i \in 1..Len(iterators) :
            (/\ iterators[i].pc # "created"
             /\ ValidBound(iterators[i].start) /\ ValidBound(iterators[i].end)) =>
                /\ iterators[i].pc = "raised" =>
                       /\ iterators[i].raised = "TypeError"
                       /\ Raises(iterators[i].curr_index)
                       /\ ValuesOf(iterators[i].yielded)
                              = AcceptedBefore(iterators[i], iterators[i].curr_index)
                /\ iterators[i].pc \in {"yielded", "done"} =>
                       \A j \in 1..Size :
                           (/\ Raises(Digits(j - 1))
                            /\ Within(iterators[i], Digits(j - 1))
                            /\ iterators[i].pc = "yielded" =>
                                   ListLess(Digits(j - 1), iterators[i].curr_index)) =>
                               JumpedOver(iterators[i], Digits(j - 1))
                /\ \A j \in 1..Len(iterators[i].yielded) :
                       ~Raises(DigitsOf(iterators[i].yielded[j].values))

\* A generator raised the error of a dependent after it yielded a mapping
\* and a filter rejected a candidate.
C16_RaisedAfterYield ==
    /\ Ready
    /\ \E i \in 1..Len(iterators) :
           /\ iterators[i].pc = "raised"
           /\ iterators[i].raised = "TypeError"
           /\ iterators[i].start = None /\ iterators[i].end = None
           /\ iterators[i].yielded # <<>>
           /\ Rejected(iterators[i])

\* A generator yielded a mapping after a rejection jumped over a
\* combination on which the dependent raises.
C16_JumpedOverRaising ==
    /\ Ready
    /\ \E i \in 1..Len(iterators) :
           /\ iterators[i].pc = "yielded"
           /\ iterators[i].start = None /\ iterators[i].end = None
           /\ \E j \in 1..Size :
                  /\ Raises(Digits(j - 1))
                  /\ ListLess(Digits(j - 1), iterators[i].curr_index)
                  /\ JumpedOver(iterators[i], Digits(j - 1))

(***************************************************************************)
(* C19: with an end bound, a generator ends as soon as its counter has     *)
(* reached or passed the end, before it computes a dependent or calls a    *)
(* filter: it builds no combination at or after the end, and so it ends    *)
(* normally when a dependent raises at or after the end.                   *)
(***************************************************************************)
C19_EndBeforeExpanding ==
    Ready =>
        \A i \in 1..Len(iterators) :
            (/\ iterators[i].pc # "created"
             /\ iterators[i].end # None
             /\ ValidBound(iterators[i].start) /\ ValidBound(iterators[i].end)) =>
                /\ \A j \in 1..Len(iterators[i].examined) :
                       ListLess(iterators[i].examined[j].index,
                                BoundDigits(iterators[i].end, inf))
                /\ iterators[i].pc = "raised" =>
                       ListLess(iterators[i].curr_index,
                                BoundDigits(iterators[i].end, inf))

\* What holds of the end bound: nothing at or after it is yielded.
C19_NothingYieldedPastEnd ==
    Ready =>
        \A i \in 1..Len(iterators) :
            (/\ iterators[i].pc # "created"
             /\ iterators[i].end # None
             /\ ValidBound(iterators[i].start) /\ ValidBound(iterators[i].end)) =>
                \A j \in 1..Len(iterators[i].yielded) :
                    ListLess(DigitsOf(iterators[i].yielded[j].values),
                             BoundDigits(iterators[i].end, inf))

\* A generator raised the error of a dependent on the combination of its
\* end bound, after it yielded the mappings before the end.
C19_RaisedAtEnd ==
    /\ Ready
    /\ \E i \in 1..Len(iterators) :
           /\ iterators[i].pc = "raised"
           /\ iterators[i].end # None /\ ValidBound(iterators[i].end)
           /\ iterators[i].start = None
           /\ iterators[i].yielded # <<>>
           /\ iterators[i].curr_index = BoundDigits(iterators[i].end, inf)

(***************************************************************************)
(* Reference definitions of the jump.                                      *)
(***************************************************************************)
\* The parameters of the order a parameter is computed from.
RECURSIVE Closure(_)
Closure(p) ==
    IF p \in OrderNames THEN {p}
    ELSE IF HasCall(KwGet(kwargs, p))
    THEN UNION {Closure(q) : q \in Signature(KwGet(kwargs, p))}
    ELSE {}

\* The last place of the order among the closure of the arguments of a filter.
FilterPlace(f) ==
    LET places == {ListIndex(order, n) : n \in UNION {Closure(p) : p \in f.parameters}}
    IN CHOOSE p \in places : \A q \in places : q <= p

\* The filters that return falsy on a combination.
Failing(digits) ==
    {i \in 1..Len(filters) :
        ~Test(filters[i].function,
              [p \in filters[i].parameters |-> Mapping(digits)[p]]).result}

\* The least of the places of the failing filters.
JumpPlace(digits) ==
    LET places == {FilterPlace(filters[i]) : i \in Failing(digits)}
    IN CHOOSE p \in places : \A q \in places : p <= q

\* The number of a combination whose digits after place p are zero, plus
\* one at place p: the carry is the carry of the addition.
Advanced(digits, p) ==
    LET Weighted(q) == IF q > p + 1 THEN 0 ELSE digits[q] * RadixProduct(q + 1)
        Sum[q \in 0..Len(order)] == IF q = 0 THEN 0 ELSE Sum[q - 1] + Weighted(q)
    IN Sum[Len(order)] + RadixProduct(p + 2)

(***************************************************************************)
(* C20: after a rejected candidate, the counter advances from the place p  *)
(* that is the least, over the filters that returned falsy, of the last    *)
(* place of the order in the filter's closure: the digits after p are      *)
(* zero, digit p is incremented with carry towards place 0, and the        *)
(* enumeration ends when the carry leaves place 0.                         *)
(***************************************************************************)
C20_JumpPlace ==
    Ready =>
        \A i \in 1..Len(iterators) :
            Settled(iterators[i]) =>
                \A j \in 1..Len(iterators[i].examined) :
                    iterators[i].examined[j].change_place # NoPlace =>
                        /\ iterators[i].examined[j].change_place
                               = JumpPlace(iterators[i].examined[j].index)
                        /\ IF Advanced(iterators[i].examined[j].index,
                                       iterators[i].examined[j].change_place) >= Size
                           THEN j = Len(iterators[i].examined) /\ iterators[i].pc = "done"
                           ELSE /\ j < Len(iterators[i].examined)
                                /\ iterators[i].examined[j + 1].index
                                       = Digits(Advanced(iterators[i].examined[j].index,
                                                         iterators[i].examined[j].change_place))

\* Two filters of different places rejected a candidate, and the counter
\* advanced from the lesser place to a next candidate.
C20_TwoFilters ==
    /\ Ready
    /\ \E i \in 1..Len(iterators) :
           /\ Settled(iterators[i])
           /\ \E j \in 1..(Len(iterators[i].examined) - 1) :
                  /\ iterators[i].examined[j].change_place # NoPlace
                  /\ Cardinality(Failing(iterators[i].examined[j].index)) = 2
                  /\ FilterPlace(filters[1]) # FilterPlace(filters[2])

\* A rejection at the last place carried into the place before it.
C20_Carried ==
    /\ Ready
    /\ \E i \in 1..Len(iterators) :
           /\ Settled(iterators[i])
           /\ \E j \in 1..(Len(iterators[i].examined) - 1) :
                  /\ iterators[i].examined[j].change_place = Len(order) - 1
                  /\ Len(order) >= 2
                  /\ iterators[i].examined[j + 1].index[Len(order) - 1]
                         # iterators[i].examined[j].index[Len(order) - 1]

(***************************************************************************)
(* C17: a + b of two Namespace objects returns a new mapping that holds    *)
(* the entries of a overwritten by those of b on shared keys, and leaves   *)
(* both operands unchanged: after a + b, a has exactly the keys and values *)
(* it had before, and so does b.                                           *)
(***************************************************************************)
\* The keys and values of a Namespace: items().
Items(self) == self._internal_

C17_MergeLeavesOperands ==
    [][\A i \in 1..Len(namespaces), j \in 1..Len(namespaces) :
           NamespaceAdd(i, j) =>
               /\ Items(namespaces'[Len(namespaces')]) =
                      dict_update(Items(namespaces[i]), Items(namespaces[j]))
               /\ Items(namespaces'[i]) = Items(namespaces[i])
               /\ Items(namespaces'[j]) = Items(namespaces[j])]_vars

\* What does hold of a + b: the result is a new object holding the merged
\* entries, b is unchanged when it is not a, and the attributes of a are
\* unchanged.
C17_ResultAndRightOperand ==
    [][\A i \in 1..Len(namespaces), j \in 1..Len(namespaces) :
           NamespaceAdd(i, j) =>
               /\ Len(namespaces') = Len(namespaces) + 1
               /\ Items(namespaces'[Len(namespaces')]) =
                      dict_update(Items(namespaces[i]), Items(namespaces[j]))
               /\ namespaces'[i].__dict__ = namespaces[i].__dict__
               /\ Items(namespaces'[i]) =
                      dict_update(Items(namespaces[i]), Items(namespaces[j]))
               /\ i # j => namespaces'[j] = namespaces[j]]_vars

\* After a + b, the left operand holds a key it has no attribute for, or a
\* value its attribute does not have.
C17_LeftOperandChanged ==
    /\ returned.op = "__add__"
    /\ LET a == namespaces[returned.arg[1]]
       IN \E k \in DOMAIN a._internal_ :
              k \notin DOMAIN a.__dict__ \/ a.__dict__[k] # a._internal_[k]

(***************************************************************************)
(* C18: for every radix vector and every in-range init_values, a           *)
(* MixedRadix counter is made, and its first advance returns exactly       *)
(* init_values; made with no init_values, its first advance returns the    *)
(* all-zero digit vector.  There is no counter of no digit: the            *)
(* constructor raises IndexError on the empty radix vector.                *)
(***************************************************************************)
InRange(radixes, init_values) ==
    /\ init_values # None
    /\ Len(init_values.items) = Len(radixes)
    /\ \A i \in 1..Len(radixes) : init_values.items[i] < radixes[i]

\* The last call advanced the counter with the default min_place, or with
\* the last place, which is the default.
PlainAdvance ==
    /\ returned.op = "next"
    /\ \/ returned.arg = None
       \/ returned.arg = IntVal(Len(mixed_radix.radixes) - 1)

C18_ReturnedZeros ==
    /\ mixed_radix # None
    /\ mixed_radix.pc = "ready"
    /\ mixed_radix.advances = 1
    /\ PlainAdvance
    /\ mixed_radix.init_values = None
    /\ returned.value = [i \in 1..Len(mixed_radix.radixes) |-> 0]

(***************************************************************************)
(* C21: no redundant rejections.  Within one enumeration, after a          *)
(* candidate is rejected with jump place p, no later examined candidate    *)
(* has the same digits at places 0..p; with a single filter whose place is *)
(* the first of the order, at most one candidate is built and rejected per *)
(* value of the first parameter, and a full enumeration that ended has     *)
(* rejected exactly one candidate per blocked value and yielded every      *)
(* combination of the other values.                                        *)
(***************************************************************************)
\* The digits of places 0..p.
Prefix(index, p) == SubSeq(index, 1, p + 1)

\* The candidates of a generator rejected with digit v at place 0.
RejectedAt(it, v) ==
    {j \in 1..Len(it.examined) :
        it.examined[j].change_place # NoPlace /\ it.examined[j].index[1] = v}

\* The digits of place 0 on which the only filter returns falsy.
Blocked == {v \in 0..(Radix(1) - 1) : Failing(Digits(v * RadixProduct(2))) # {}}

C21_NoRedundantRejection ==
    Ready =>
        \A i \in 1..Len(iterators) :
            /\ \A j \in 1..Len(iterators[i].examined), k \in 1..Len(iterators[i].examined) :
                   (j < k /\ iterators[i].examined[j].change_place # NoPlace) =>
                       Prefix(iterators[i].examined[k].index,
                              iterators[i].examined[j].change_place)
                           # Prefix(iterators[i].examined[j].index,
                                    iterators[i].examined[j].change_place)
            /\ (/\ Settled(iterators[i])
                /\ Len(filters) = 1
                /\ FilterPlace(filters[1]) = 0) =>
                   /\ \A v \in 0..(Radix(1) - 1) :
                          Cardinality(RejectedAt(iterators[i], v)) <= 1
                   /\ (IsFull(iterators[i]) /\ iterators[i].pc = "done") =>
                          /\ \A v \in 0..(Radix(1) - 1) :
                                 Cardinality(RejectedAt(iterators[i], v))
                                     = IF v \in Blocked THEN 1 ELSE 0
                          /\ Len(iterators[i].yielded)
                                 = (Radix(1) - Cardinality(Blocked)) * RadixProduct(2)

\* A full enumeration of two parameters with the single filter on the first
\* ended: one value is blocked, one candidate was rejected, the rows of the
\* other values were yielded.
C21_OneRejectionPerBlockedValue ==
    /\ Ready
    /\ Len(order) = 2
    /\ Len(filters) = 1
    /\ \E i \in 1..Len(iterators) :
           /\ Settled(iterators[i]) /\ IsFull(iterators[i])
           /\ iterators[i].pc = "done"
           /\ FilterPlace(filters[1]) = 0
           /\ Radix(2) = MaxDomain
           /\ Cardinality(Blocked) = 1
           /\ Cardinality({j \in 1..Len(iterators[i].examined) :
                              iterators[i].examined[j].change_place # NoPlace}) = 1
           /\ Len(iterators[i].yielded) = (Radix(1) - 1) * MaxDomain
           /\ iterators[i].yielded # <<>>

\* A rejection with a place before the last, from a start among the rows of
\* the rejected value: the candidates left in the row were passed over.
C21_JumpedOverRow ==
    /\ Ready
    /\ Len(order) >= 2
    /\ \E i \in 1..Len(iterators) :
           \E j \in 1..(Len(iterators[i].examined) - 1) :
               /\ iterators[i].examined[j].change_place # NoPlace
               /\ iterators[i].examined[j].change_place < Len(order) - 1
               /\ iterators[i].examined[j].index[Len(order)] < Radix(Len(order)) - 1

(***************************************************************************)
(* The two counters side by side: MixedRadix.next on a counter made with   *)
(* any radixes, and PermutationSpace._increment_index on any index of a    *)
(* constructed space, from any place.                                      *)
(***************************************************************************)
\* _increment_index(index, change_place), change_place = None included.
IncrementFrom(ord, params, index, change_place) ==
    _increment_index(ord, params, index,
                     IF change_place = NoPlace THEN Len(ord) - 1 ELSE change_place)

\* space._increment_index(index, change_place)
IncrementIndex(index, change_place) ==
    /\ state = "ready"
    /\ returned' = Returned("_increment_index",
                            [index |-> index, change_place |-> change_place], "",
                            IncrementFrom(order, _parameters, index, change_place))
    /\ UNCHANGED <<order, kwargs, state, _parameters, topological_order, filters,
                   cache, iterators, namespaces, mixed_radix>>

\* The two objects share no state: the index of the space is advanced
\* before the MixedRadix is made, which loses no advance of either.
NextCounters ==
    \/ Construct
    \/ /\ state = "ready"
       /\ mixed_radix = None
       /\ \E index \in {Digits(n) : n \in 0..(Size - 1)},
             change_place \in {NoPlace} \cup 0..(Len(order) - 1) :
              IncrementIndex(index, change_place)
    \/ \E radixes \in RadixVectors, init_values \in InitValues :
           MixedRadixNew(radixes, init_values)
    \/ \E min_place \in MinPlaces :
           /\ mixed_radix # None
           /\ min_place # None => min_place.v < Len(mixed_radix.radixes)
           /\ MixedRadixNext(min_place)

SpecCounters == Init /\ [][NextCounters]_vars

(***************************************************************************)
(* Reference definitions of the advance: the successor of a prefix of      *)
(* digits by arithmetic.                                                   *)
(***************************************************************************)
\* The product of the radixes of positions i..last: 1 for none.
RECURSIVE ProductFrom(_, _, _)
ProductFrom(radixes, i, last) ==
    IF i > last THEN 1 ELSE radixes[i] * ProductFrom(radixes, i + 1, last)

\* The number the first n digits write.
RECURSIVE Number(_, _, _)
Number(radixes, digits, n) ==
    IF n = 0 THEN 0
    ELSE Number(radixes, digits, n - 1) * radixes[n] + digits[n]

\* The digits after place p zero, and the number of the digits of places
\* 0..p plus one.
Successor(radixes, digits, p) ==
    [i \in 1..Len(digits) |->
        IF i > p + 1 THEN 0
        ELSE ((Number(radixes, digits, p + 1) + 1) \div ProductFrom(radixes, i + 1, p + 1))
                 % radixes[i]]

\* Every digit of places 0..p is the last of its radix.
AtMaximum(radixes, digits, p) == \A i \in 1..(p + 1) : digits[i] = radixes[i] - 1

InRadix(radixes, digits) ==
    /\ Len(digits) = Len(radixes)
    /\ \A i \in 1..Len(digits) : 0 <= digits[i] /\ digits[i] < radixes[i]

\* The radixes of a space: the sizes of the domains in the order.
Radixes == [i \in 1..Len(order) |-> Radix(i)]

\* The place of an advance: the last place for None.
PlaceOf(min_place, digits) == IF min_place = None THEN Len(digits) - 1 ELSE min_place.v

(***************************************************************************)
(* C22: an advance from place p on a digit state d, after the first        *)
(* advance, sets every digit after p to 0 and replaces the digits of       *)
(* places 0..p by their mixed-radix successor; every digit of a returned   *)
(* state is within its radix; exhaustion is signalled exactly when the     *)
(* digits of places 0..p are all the last of their radix; the default      *)
(* advance is from the last place.  For MixedRadix.next and for            *)
(* _increment_index.                                                       *)
(***************************************************************************)
C22_CounterAdvance ==
    [][/\ \A min_place \in MinPlaces :
              (/\ mixed_radix # None
               /\ mixed_radix.advances >= 1
               /\ returned'.op = "next"
               /\ min_place # None => min_place.v < Len(mixed_radix.radixes)
               /\ MixedRadixNext(min_place)) =>
                  LET p == PlaceOf(min_place, mixed_radix._state_)
                  IN /\ InRadix(mixed_radix.radixes, mixed_radix._state_)
                     /\ IF AtMaximum(mixed_radix.radixes, mixed_radix._state_, p)
                        THEN returned'.raised = "StopIteration"
                        ELSE /\ returned'.raised = ""
                             /\ returned'.value = Successor(mixed_radix.radixes,
                                                            mixed_radix._state_, p)
                             /\ mixed_radix'._state_ = returned'.value
                             /\ InRadix(mixed_radix.radixes, returned'.value)
       /\ (state = "ready" /\ returned'.op = "_increment_index") =>
              \A index \in {Digits(n) : n \in 0..(Size - 1)},
                 change_place \in {NoPlace} \cup 0..(Len(order) - 1) :
                  IncrementIndex(index, change_place) =>
                      LET p == IF change_place = NoPlace THEN Len(order) - 1
                               ELSE change_place
                      IN IF AtMaximum(Radixes, index, p)
                         THEN returned'.value.overflow
                         ELSE /\ ~returned'.value.overflow
                              /\ returned'.value.index = Successor(Radixes, index, p)
                              /\ InRadix(Radixes, returned'.value.index)]_vars

\* A counter of MaxDigits digits, advanced before, advanced from a place
\* before the last and returned a state.
C22_CarriedFromPlace ==
    /\ mixed_radix # None
    /\ mixed_radix.pc = "ready"
    /\ mixed_radix.advances >= 2
    /\ Len(mixed_radix.radixes) = MaxDigits
    /\ returned.op = "next" /\ returned.raised = ""
    /\ returned.arg # None
    /\ returned.arg.v < MaxDigits - 1
    /\ returned.value[returned.arg.v + 1] > 0
    /\ returned.value[returned.arg.v + 2] = 0

\* A counter advanced before signalled exhaustion on an advance from a place
\* before the last.
C22_Exhausted ==
    /\ mixed_radix # None
    /\ mixed_radix.advances >= 2
    /\ Len(mixed_radix.radixes) >= 2
    /\ returned.op = "next" /\ returned.raised = "StopIteration"
    /\ returned.arg = IntVal(0)

\* _increment_index carried from the last place into the place before it.
C22_IndexCarried ==
    /\ state = "ready"
    /\ Len(order) >= 2
    /\ returned.op = "_increment_index"
    /\ returned.arg.change_place = NoPlace
    /\ ~returned.value.overflow
    /\ returned.value.index[Len(order)] = 0
    /\ returned.value.index[Len(order) - 1] = returned.arg.index[Len(order) - 1] + 1

\* _increment_index returned None from a place before the last.
C22_IndexExhausted ==
    /\ state = "ready"
    /\ Len(order) >= 2
    /\ returned.op = "_increment_index"
    /\ returned.arg.change_place = 0
    /\ returned.value.overflow

(***************************************************************************)
(* C23: exhaustion is absorbing.  Once a MixedRadix counter has signalled  *)
(* exhaustion (StopIteration), the next advance on it, from any place,     *)
(* signals exhaustion too, and so does every later one, for any number of  *)
(* digits.                                                                 *)
(***************************************************************************)
C23_ExhaustionAbsorbing ==
    [][\A min_place \in MinPlaces :
           (/\ mixed_radix # None
            /\ returned.op = "next" /\ returned.raised = "StopIteration"
            /\ returned'.op = "next"
            /\ min_place # None => min_place.v < Len(mixed_radix.radixes)
            /\ MixedRadixNext(min_place)) =>
               returned'.raised = "StopIteration"]_vars

\* What does hold: a counter of one digit, or whose digits after the first
\* have radix 1, stays exhausted.
C23_AbsorbingOnOneDigit ==
    [][\A min_place \in MinPlaces :
           (/\ mixed_radix # None
            /\ returned.op = "next" /\ returned.raised = "StopIteration"
            /\ returned'.op = "next"
            /\ min_place # None => min_place.v < Len(mixed_radix.radixes)
            /\ \A i \in 2..Len(mixed_radix.radixes) : mixed_radix.radixes[i] = 1
            /\ MixedRadixNext(min_place)) =>
               returned'.raised = "StopIteration"]_vars

\* An exhausted counter of MaxDigits digits returned a state again.
C23_Resumed ==
    /\ mixed_radix # None
    /\ Len(mixed_radix.radixes) = MaxDigits
    /\ mixed_radix.advances >= 3
    /\ returned.op = "next" /\ returned.raised = ""
    /\ returned.arg = None
    /\ returned.value[1] = mixed_radix.radixes[1] - 1
    /\ returned.value[MaxDigits] = 1
    /\ \A i \in 2..(MaxDigits - 1) : returned.value[i] = 0

(***************************************************************************)
(* C24: after construction and any sequence of set-by-attribute,           *)
(* set-by-key, delete-by-attribute and delete-by-key, keys() is exactly    *)
(* the ordinary keys set and not deleted afterwards, attribute access and  *)
(* key access on each of them return the same, most recently set value,    *)
(* and a deleted key is neither contained nor readable.  Stated step by    *)
(* step: construction shows its keyword arguments, a set adds or replaces  *)
(* one key, a delete removes one, and every state is consistent.           *)
(***************************************************************************)
\* What the ordinary keys of a Namespace show: keys() and the values read.
Shown(self) ==
    [k \in keys(self) \cap OrdinaryKeys |-> __getattr__(self, k).value]

\* Each ordinary key is in keys(), contained and read the same by attribute
\* and by key, or is in none of them and raises when read.
Consistent(self) ==
    \A k \in OrdinaryKeys :
        IF k \in keys(self)
        THEN /\ __contains__(self, k)
             /\ __getattr__(self, k).raised = ""
             /\ __getitem__(self, k) = __getattr__(self, k)
             /\ __getattr__(self, k).value = self._internal_[k]
        ELSE /\ ~__contains__(self, k)
             /\ __getattr__(self, k).raised = "AttributeError"
             /\ __getitem__(self, k).raised = "KeyError"

C24_NamespaceInvariant ==
    [][/\ \A kw \in NamespaceKwargs :
              (namespaces = <<>> /\ NamespaceNew(kw)) => Shown(namespaces'[1]) = kw
       /\ \A i \in 1..Len(namespaces) :
              /\ \A key \in OrdinaryKeys, value \in NamespaceValues :
                     (NamespaceSetAttr(i, key, value) \/ NamespaceSetItem(i, key, value)) =>
                         Shown(namespaces'[i]) = DictSet(Shown(namespaces[i]), key, value)
              /\ \A key \in OrdinaryKeys :
                     (NamespaceDelAttr(i, key) \/ NamespaceDelItem(i, key)) =>
                         Shown(namespaces'[i]) = dict_del(Shown(namespaces[i]), key)
              /\ \A key \in AnyKeys \ OrdinaryKeys, value \in NamespaceValues :
                     (\/ NamespaceSetAttr(i, key, value) \/ NamespaceSetItem(i, key, value)
                      \/ NamespaceDelAttr(i, key) \/ NamespaceDelItem(i, key)) =>
                         Shown(namespaces'[i]) = Shown(namespaces[i])
       /\ \A i \in 1..Len(namespaces') : Consistent(namespaces'[i])]_vars

\* A key was deleted by key from a Namespace that still holds another key.
C24_DeletedOneOfTwo ==
    /\ Len(namespaces) = 1
    /\ returned.op = "__delitem__"
    /\ returned.raised = ""
    /\ returned.arg.key \in OrdinaryKeys
    /\ returned.arg.key \notin keys(namespaces[1])
    /\ keys(namespaces[1]) # {}

\* A key that the Namespace was made with was set to another value by key.
C24_Replaced ==
    /\ Len(namespaces) = 1
    /\ returned.op = "__setitem__"
    /\ returned.arg.key \in OrdinaryKeys
    /\ Cardinality(keys(namespaces[1])) = 2
    /\ \A k \in keys(namespaces[1]) : __getitem__(namespaces[1], k).value = IntVal(MaxValue)

(***************************************************************************)
(* Reference definitions of the implication.                               *)
(***************************************************************************)
\* The predicate is truthy on the mapping.
Holds(predicate, values) ==
    TestPredicate(predicate, [p \in Signature(predicate) |-> values[p]]).result

Implied(antecedent_func, consequent_func, values) ==
    ~Holds(antecedent_func, values) \/ Holds(consequent_func, values)

\* The combinations of the cross-product every filter of fs accepts, in order.
NaiveWith(fs) ==
    LET Accepted(values) == Passes(fs, values)
    IN SelectSeq(CrossProduct, Accepted)

\* The same on which the antecedent is falsy or the consequent truthy.
NaiveImplied(fs, antecedent_func, consequent_func) ==
    LET Accepted(values) == Implied(antecedent_func, consequent_func, values)
    IN SelectSeq(NaiveWith(fs), Accepted)

\* The single predicate `not antecedent(...) or consequent(...)` over the
\* arguments of both, as filter() takes it.
Combined(antecedent_func, consequent_func) ==
    [kind |-> "if_func",
     args |-> Signature(antecedent_func) \cup Signature(consequent_func),
     antecedent |-> antecedent_func, consequent |-> consequent_func]

\* filter_if registered: the filter appended last is on the arguments of
\* both predicates, its place is the last place of the order among their
\* closures, filter() makes the same of the combined predicate, and a full
\* enumeration with filters `fs` and cache `cch` ends having yielded, in
\* order, the combinations accepted before on which the implication holds.
Registered(antecedent_func, consequent_func, before, fs, cch, raised) ==
    /\ raised = ""
    /\ Len(fs) = Len(before) + 1
    /\ fs[Len(fs)].parameters = Signature(antecedent_func) \cup Signature(consequent_func)
    /\ fs[Len(fs)].min_place = FilterPlace(fs[Len(fs)])
    /\ LET registered == filter(order, _parameters,
                                Combined(antecedent_func, consequent_func))
       IN /\ registered.raised = ""
          /\ registered.appended[1].parameters = fs[Len(fs)].parameters
          /\ registered.appended[1].min_place = fs[Len(fs)].min_place
    /\ FullEnumeration(fs, cch).pc = "done"
    /\ ValuesOf(FullEnumeration(fs, cch).yielded)
           = NaiveImplied(before, antecedent_func, consequent_func)

(***************************************************************************)
(* C25: filter_if(antecedent, consequent), on predicates whose arguments   *)
(* are parameters of the space, registers the single filter                *)
(* `not antecedent(...) or consequent(...)` over the arguments of both:    *)
(* its place is the last place of the order among the closures of both,    *)
(* and the enumeration afterwards yields exactly, and in order, the        *)
(* combinations where the antecedent is falsy or the consequent truthy.    *)
(***************************************************************************)
C25_FilterIf ==
    [][\A antecedent_func \in Antecedents, consequent_func \in Consequents :
           (/\ Signature(antecedent_func) \cup Signature(consequent_func)
                   \subseteq DOMAIN _parameters
            /\ returned'.op = "filter_if"
            /\ FilterIf(antecedent_func, consequent_func)) =>
               Registered(antecedent_func, consequent_func, filters, filters',
                          cache', returned'.raised)]_vars

\* C25 for the predicates on parameters of the order and on dependents
\* computed from them.
C25_OrderArguments ==
    [][\A antecedent_func \in Antecedents, consequent_func \in Consequents :
           (/\ Signature(antecedent_func) \cup Signature(consequent_func)
                   \subseteq DOMAIN _parameters
            /\ \A p \in Signature(antecedent_func) \cup Signature(consequent_func) :
                   /\ _parameters[p].independencies # {}
                   /\ _parameters[p].independencies \subseteq OrderNames
            /\ returned'.op = "filter_if"
            /\ FilterIf(antecedent_func, consequent_func)) =>
               Registered(antecedent_func, consequent_func, filters, filters',
                          cache', returned'.raised)]_vars

\* filter_if and filter of the combined predicate raise on the same
\* arguments: KeyError and ValueError on a name that is not a parameter,
\* ValueError both on a constant.
C25_RaisesAsFilter ==
    [][\A antecedent_func \in Antecedents, consequent_func \in Consequents :
           (returned'.op = "filter_if" /\ FilterIf(antecedent_func, consequent_func)) =>
               LET registered == filter(order, _parameters,
                                        Combined(antecedent_func, consequent_func))
               IN /\ (returned'.raised = "") = (registered.raised = "")
                  /\ returned'.raised # "" => filters' = filters
                  /\ returned'.raised = "KeyError" <=>
                         ~(Signature(antecedent_func) \cup Signature(consequent_func)
                               \subseteq DOMAIN _parameters)]_vars

\* filter_if raised ValueError for a predicate on a constant.
C25_RefusedConstant ==
    /\ Ready
    /\ returned.op = "filter_if"
    /\ returned.raised = "ValueError"
    /\ "k" \in Signature(returned.arg.antecedent) \cup Signature(returned.arg.consequent)

\* A full enumeration ended with a filter of filter_if whose antecedent and
\* consequent are on different parameters: it rejected a candidate with the
\* place of the later one and yielded combinations with a falsy antecedent
\* and others with a truthy one.
C25_Enumerated ==
    /\ Ready
    /\ Len(filters) = 1
    /\ filters[1].function.kind = "if_func"
    /\ Cardinality(filters[1].parameters) = 2
    /\ \E i \in 1..Len(iterators) :
           /\ iterators[i].pc = "done"
           /\ Rejected(iterators[i])
           /\ \E j \in 1..Len(iterators[i].yielded) :
                  Holds(filters[1].function.antecedent, iterators[i].yielded[j].values)
           /\ \E j \in 1..Len(iterators[i].yielded) :
                  ~Holds(filters[1].function.antecedent, iterators[i].yielded[j].values)

====
